---- MODULE Spec2Model ----
(***************************************************************************)
(* Planning and calculation engine of the cycling coach: the session       *)
(* builder (generators/workout_builder.py), the training-load calculator   *)
(* (core/calculations.py), the knowledge tables (core/knowledge_base.py)    *)
(* and the level-keyed parts of the periodization engine                    *)
(* (periodization_system.py).                                               *)
(*                                                                          *)
(* Conventions.  Fractions of threshold power are held in thousandths       *)
(* (0.45 is 450), recovery ratios and level factors in hundredths or       *)
(* tenths as named below, so that every product the code computes is an    *)
(* exact integer here.  A Python string that the code passes to lower()    *)
(* is a sequence of one-character strings; a string that is only used as   *)
(* a dictionary key is a TLA+ string.                                      *)
(***************************************************************************)
EXTENDS Integers, Sequences, FiniteSets, TLC

VARIABLES request, workout, call, clock, tables

vars == <<request, workout, call, clock, tables>>

Min(a, b) == IF a <= b THEN a ELSE b
Max(a, b) == IF a >= b THEN a ELSE b

RECURSIVE SumSeq(_)
SumSeq(s) == IF s = <<>> THEN 0 ELSE Head(s) + SumSeq(Tail(s))

----------------------------------------------------------------------------
(* Bounds of the model *)

MaxOverdraft == 3
MaxDuration == 100
MaxCasePrefix == 2
MaxTss == 210
MaxSegMinutes == 4
MaxReps == 3
MaxWeeks == 24
MaxWeekdayHours == 7
MaxWeekendHours == 8
MaxClock == 2
MaxPlanWeeks == 16

----------------------------------------------------------------------------
(* core/knowledge_base.py: the constant tables *)

PowerScale == 1000

POWER_ZONES ==
  [ Z1 |-> <<450, 550>>,
    Z2 |-> <<560, 750>>,
    Z3 |-> <<760, 900>>,
    Z4 |-> <<910, 1050>>,
    Z5 |-> <<1060, 1200>>,
    Z6 |-> <<1210, 1500>>,
    Z7 |-> <<1510, 3000>> ]

(* recovery_ratio in hundredths *)
ATHLETE_ADAPTATIONS ==
  [ beginner |->
      [ vo2max_intervals |-> [max_reps |-> 3, max_duration |-> 3, recovery_ratio |-> 100],
        threshold_intervals |-> [max_duration |-> 15, recovery_ratio |-> 50] ],
    intermediate |->
      [ vo2max_intervals |-> [max_reps |-> 5, max_duration |-> 5, recovery_ratio |-> 75],
        threshold_intervals |-> [max_duration |-> 25, recovery_ratio |-> 25] ],
    advanced |->
      [ vo2max_intervals |-> [max_reps |-> 6, max_duration |-> 8, recovery_ratio |-> 50],
        threshold_intervals |-> [max_duration |-> 40, recovery_ratio |-> 25] ],
    elite |->
      [ vo2max_intervals |-> [max_reps |-> 8, max_duration |-> 8, recovery_ratio |-> 50],
        threshold_intervals |-> [max_duration |-> 60, recovery_ratio |-> 20] ] ]

(* self.adaptations.get(level, self.adaptations["intermediate"]) *)
level_adaptations(level) ==
  IF level \in DOMAIN ATHLETE_ADAPTATIONS
  THEN ATHLETE_ADAPTATIONS[level]
  ELSE ATHLETE_ADAPTATIONS["intermediate"]

----------------------------------------------------------------------------
(* str.lower() on the characters the type strings are made of *)

UpperLetters ==
  <<"A","B","C","D","E","F","G","H","I","J","K","L","M",
    "N","O","P","Q","R","S","T","U","V","W","X","Y","Z">>
LowerLetters ==
  <<"a","b","c","d","e","f","g","h","i","j","k","l","m",
    "n","o","p","q","r","s","t","u","v","w","x","y","z">>

LowerChar(c) ==
  IF \E i \in 1..26 : UpperLetters[i] = c
  THEN LowerLetters[CHOOSE i \in 1..26 : UpperLetters[i] = c]
  ELSE c

UpperChar(c) ==
  IF \E i \in 1..26 : LowerLetters[i] = c
  THEN UpperLetters[CHOOSE i \in 1..26 : LowerLetters[i] = c]
  ELSE c

str_lower_identity(s) == s
str_lower(s) == [i \in 1..Len(s) |-> LowerChar(s[i])]

----------------------------------------------------------------------------
(* core/models.py: the value objects *)

WorkoutSegment(type, duration_minutes, power_pct_ftp, cadence_rpm) ==
  [ type |-> type, duration_minutes |-> duration_minutes,
    power_pct_ftp |-> power_pct_ftp, cadence_rpm |-> cadence_rpm ]

RepeatedInterval(repetitions, work_duration, work_power_pct, work_cadence, rest_duration, rest_power_pct, rest_cadence) ==
  [ repetitions |-> repetitions,
    work_duration |-> work_duration, work_power_pct |-> work_power_pct,
    work_cadence |-> work_cadence,
    rest_duration |-> rest_duration, rest_power_pct |-> rest_power_pct,
    rest_cadence |-> rest_cadence ]

(* adaptation_notes holds the values the code interpolates into the text *)
SmartWorkout(type, total_duration, segments, repeated_intervals, ftp, adaptation_notes) ==
  [ type |-> type, total_duration |-> total_duration, segments |-> segments,
    repeated_intervals |-> repeated_intervals, ftp |-> ftp,
    adaptation_notes |-> adaptation_notes ]

get_total_duration(interval) ==
  interval.repetitions * (interval.work_duration + interval.rest_duration)

calculate_actual_duration(w) ==
  SumSeq([i \in 1..Len(w.segments) |-> w.segments[i].duration_minutes])
  + SumSeq([i \in 1..Len(w.repeated_intervals) |-> get_total_duration(w.repeated_intervals[i])])

----------------------------------------------------------------------------
(* generators/workout_builder.py *)

vo2max_work_duration(max_duration) == Min(max_duration, 4)

vo2max_rest_duration(work_duration, recovery_ratio) ==
  Max(2, (work_duration * recovery_ratio) \div 100)

vo2max_actual_reps_no_floor(duration, max_reps, single_rep_time) ==
  Min(max_reps, (duration - 15 - 15 - 10) \div single_rep_time)
vo2max_actual_reps(duration, max_reps, single_rep_time) ==
  LET warmup_time == 15
      cooldown_time == 15
      activation_time == 10
      available_time == duration - warmup_time - cooldown_time - activation_time
      calculated_reps == Min(max_reps, available_time \div single_rep_time)
  IN  Max(3, calculated_reps)

_create_vo2max_workout(duration, level, ftp, adaptations) ==
  LET max_reps == adaptations.vo2max_intervals.max_reps
      max_duration == adaptations.vo2max_intervals.max_duration
      recovery_ratio == adaptations.vo2max_intervals.recovery_ratio
      z1_power == POWER_ZONES.Z1
      z2_power == POWER_ZONES.Z2
      z5_power == POWER_ZONES.Z5
      work_duration == vo2max_work_duration(max_duration)
      rest_duration == vo2max_rest_duration(work_duration, recovery_ratio)
      single_rep_time == work_duration + rest_duration
      actual_reps == vo2max_actual_reps(duration, max_reps, single_rep_time)
      segments ==
        << WorkoutSegment("Warmup", 15, <<z1_power[1], z2_power[1]>>, 85),
           WorkoutSegment("SteadyState", 10, z2_power, 90),
           WorkoutSegment("Cooldown", 15, <<(z1_power[1] * 8) \div 10, z1_power[2]>>, 80) >>
      repeated_intervals ==
        << RepeatedInterval(actual_reps, work_duration, z5_power, 100,
                            rest_duration, z2_power, 85) >>
  IN  SmartWorkout("vo2max", duration, segments, repeated_intervals, ftp,
                   <<level, actual_reps, max_reps, recovery_ratio>>)

threshold_work_blocks(duration, max_duration) ==
  IF duration >= 80 /\ max_duration >= 20 THEN <<20, 20>>
  ELSE IF duration >= 65 /\ max_duration >= 15 THEN <<15, 15, 15>>
  ELSE << Min(max_duration, duration - 30) >>

threshold_recovery_time_of_short_block(duration, max_duration, recovery_ratio) ==
  IF duration >= 65 /\ max_duration >= 15 THEN (15 * recovery_ratio) \div 100
  ELSE 0

threshold_recovery_time(duration, max_duration, recovery_ratio) ==
  IF duration >= 80 /\ max_duration >= 20 THEN (20 * recovery_ratio) \div 100
  ELSE IF duration >= 65 /\ max_duration >= 15 THEN (15 * recovery_ratio) \div 100
  ELSE 0

_create_threshold_workout(duration, level, ftp, adaptations) ==
  LET max_duration == adaptations.threshold_intervals.max_duration
      recovery_ratio == adaptations.threshold_intervals.recovery_ratio
      z1_power == POWER_ZONES.Z1
      z2_power == POWER_ZONES.Z2
      z4_power == POWER_ZONES.Z4
      work_blocks == threshold_work_blocks(duration, max_duration)
      recovery_time == threshold_recovery_time(duration, max_duration, recovery_ratio)
      segments ==
        << WorkoutSegment("Warmup", 15, <<z1_power[1], z2_power[2]>>, 85),
           WorkoutSegment("Cooldown", 15, <<(z1_power[1] * 8) \div 10, z1_power[2]>>, 80) >>
      repeated_intervals ==
        [ i \in 1..Len(work_blocks) |->
            RepeatedInterval(1, work_blocks[i], z4_power, 95,
                             IF i < Len(work_blocks) THEN recovery_time ELSE 0,
                             z2_power, 85) ]
  IN  SmartWorkout("threshold", duration, segments, repeated_intervals, ftp,
                   <<level, work_blocks, recovery_ratio>>)

_create_endurance_workout(duration, level, ftp, adaptations) ==
  LET z1_power == POWER_ZONES.Z1
      z2_power == POWER_ZONES.Z2
      warmup_time == Min(15, duration \div 6)
      cooldown_time == Min(15, duration \div 6)
      main_time == duration - warmup_time - cooldown_time
      segments ==
        << WorkoutSegment("Warmup", warmup_time, <<z1_power[1], z2_power[1]>>, 85),
           WorkoutSegment("SteadyState", main_time, z2_power, 90),
           WorkoutSegment("Cooldown", cooldown_time, <<(z1_power[1] * 8) \div 10, z1_power[2]>>, 85) >>
  IN  SmartWorkout("endurance", duration, segments, <<>>, ftp, <<level>>)

_create_recovery_workout(duration, level, ftp, adaptations) ==
  LET z1_power == POWER_ZONES.Z1
      segments ==
        << WorkoutSegment("SteadyState", duration,
                          <<(z1_power[1] * 9) \div 10, (z1_power[2] * 9) \div 10>>, 85) >>
  IN  SmartWorkout("recovery", duration, segments, <<>>, ftp, <<>>)

tempo_blocks(available_time) ==
  IF available_time >= 40 THEN <<20, 20>>
  ELSE IF available_time >= 25 THEN << available_time - 5 >>
  ELSE << available_time >>

tempo_recovery_between(available_time) ==
  IF available_time >= 40 THEN 5 ELSE 0

_create_tempo_workout(duration, level, ftp, adaptations) ==
  LET z1_power == POWER_ZONES.Z1
      z2_power == POWER_ZONES.Z2
      z3_power == POWER_ZONES.Z3
      warmup_time == 15
      cooldown_time == 15
      available_time == duration - warmup_time - cooldown_time
      blocks == tempo_blocks(available_time)
      recovery_between == tempo_recovery_between(available_time)
      segments ==
        << WorkoutSegment("Warmup", warmup_time, <<z1_power[1], z2_power[2]>>, 85),
           WorkoutSegment("Cooldown", cooldown_time, <<z1_power[1], z1_power[2]>>, 80) >>
      repeated_intervals ==
        [ i \in 1..Len(blocks) |->
            RepeatedInterval(1, blocks[i], z3_power, 90,
                             IF i < Len(blocks) THEN recovery_between ELSE 0,
                             z2_power, 85) ]
  IN  SmartWorkout("tempo", duration, segments, repeated_intervals, ftp, <<level>>)

(* the literal alias lists of the dispatcher *)
Vo2maxAliases == { <<"v","o","2","m","a","x">>, <<"v","o","2">>, <<"p","m","a">> }
ThresholdAliases ==
  { <<"t","h","r","e","s","h","o","l","d">>, <<"s","e","u","i","l">>, <<"f","t","p">> }
EnduranceAliases ==
  { <<"e","n","d","u","r","a","n","c","e">>, <<"z","2">>, <<"b","a","s","e">> }
RecoveryAliases ==
  { <<"r","e","c","o","v","e","r","y">>,
    <<"r","e","c","u","p","e","r","a","t","i","o","n">>, <<"z","1">> }
TempoAliases == { <<"t","e","m","p","o">>, <<"z","3">> }

create_smart_workout(workout_type, duration, level, ftp) ==
  LET adaptations == level_adaptations(level)
      t == str_lower(workout_type)
  IN  IF t \in Vo2maxAliases THEN _create_vo2max_workout(duration, level, ftp, adaptations)
      ELSE IF t \in ThresholdAliases THEN _create_threshold_workout(duration, level, ftp, adaptations)
      ELSE IF t \in EnduranceAliases THEN _create_endurance_workout(duration, level, ftp, adaptations)
      ELSE IF t \in RecoveryAliases THEN _create_recovery_workout(duration, level, ftp, adaptations)
      ELSE IF t \in TempoAliases THEN _create_tempo_workout(duration, level, ftp, adaptations)
      ELSE _create_vo2max_workout(duration, level, ftp, adaptations)

----------------------------------------------------------------------------
(* core/calculations.py *)

(* A stress score is held as the numerator of a fraction over TssDenom:    *)
(* minutes/60 * ((lo + hi)/2)^2 * 100 = minutes * (lo + hi)^2 / TssDenom  *)
(* with lo and hi in thousandths.                                          *)
TssDenom == 2400000

Square(x) == x * x

phase_tss_linear(minutes, power_pct) == minutes * (power_pct[1] + power_pct[2]) * 2000
phase_tss(minutes, power_pct) == minutes * Square(power_pct[1] + power_pct[2])

interval_rest_tss(interval) ==
  IF interval.rest_duration > 0
  THEN phase_tss(interval.rest_duration * interval.repetitions, interval.rest_power_pct)
  ELSE 0

interval_tss_rest_subtracted(interval) ==
  phase_tss(interval.work_duration * interval.repetitions, interval.work_power_pct)
  - interval_rest_tss(interval)
interval_tss(interval) ==
  phase_tss(interval.work_duration * interval.repetitions, interval.work_power_pct)
  + interval_rest_tss(interval)

calculate_tss(segments, intervals, ftp) ==
  SumSeq([i \in 1..Len(segments) |->
            phase_tss(segments[i].duration_minutes, segments[i].power_pct_ftp)])
  + SumSeq([i \in 1..Len(intervals) |-> interval_tss(intervals[i])])

(* Names bound where calculate_intensity_factor runs: its parameter and    *)
(* locals, and the globals of the module (its imports and its class).      *)
intensity_factor_scope ==
  { "workout", "total_weighted_power", "total_duration", "segment", "interval",
    "List", "Tuple", "WorkoutSegment", "RepeatedInterval", "SmartWorkout",
    "TrainingCalculations" }

(* The weighted sum and the total minutes; the code returns their quotient *)
(* (power in 2/PowerScale units), or 0 when the total is not positive.     *)
intensity_factor_sums(segments, intervals) ==
  [ weighted |->
      SumSeq([i \in 1..Len(segments) |->
                (segments[i].power_pct_ftp[1] + segments[i].power_pct_ftp[2])
                * segments[i].duration_minutes])
      + SumSeq([i \in 1..Len(intervals) |->
                  (intervals[i].work_power_pct[1] + intervals[i].work_power_pct[2])
                  * (intervals[i].work_duration * intervals[i].repetitions)
                  + (IF intervals[i].rest_duration > 0
                     THEN (intervals[i].rest_power_pct[1] + intervals[i].rest_power_pct[2])
                          * (intervals[i].rest_duration * intervals[i].repetitions)
                     ELSE 0)]),
    minutes |->
      SumSeq([i \in 1..Len(segments) |-> segments[i].duration_minutes])
      + SumSeq([i \in 1..Len(intervals) |->
                  intervals[i].work_duration * intervals[i].repetitions
                  + (IF intervals[i].rest_duration > 0
                     THEN intervals[i].rest_duration * intervals[i].repetitions
                     ELSE 0)]) ]

(* The first loop iterates over the free name "segments", not over         *)
(* workout.segments; a name that is not bound raises NameError.            *)
calculate_intensity_factor(w) ==
  IF "segments" \notin intensity_factor_scope
  THEN [outcome |-> "raised", error |-> "NameError"]
  ELSE LET sums == intensity_factor_sums(w.segments, w.repeated_intervals)
       IN  [outcome |-> "returned",
            value |-> IF sums.minutes > 0 THEN <<sums.weighted, sums.minutes>> ELSE <<0, 1>>]

DefaultThresholdPct == 910

is_high_intensity_strict(power_pct, threshold_pct) == power_pct[1] > threshold_pct
is_high_intensity(power_pct, threshold_pct) == power_pct[1] >= threshold_pct

calculate_high_intensity_time(w, threshold_pct) ==
  SumSeq([i \in 1..Len(w.segments) |->
            IF is_high_intensity(w.segments[i].power_pct_ftp, threshold_pct)
            THEN w.segments[i].duration_minutes ELSE 0])
  + SumSeq([i \in 1..Len(w.repeated_intervals) |->
              IF is_high_intensity(w.repeated_intervals[i].work_power_pct, threshold_pct)
              THEN w.repeated_intervals[i].work_duration * w.repeated_intervals[i].repetitions
              ELSE 0])

(* estimate_recovery_time: the stress score is held in tenths of a point  *)
(* and the level factor in tenths, so adjusted_tss < 40 is                 *)
(* tss * factor < 40 * TssTenths * 10.                                     *)
TssTenths == 10

recovery_factor_inverted(athlete_level) ==
  IF athlete_level = "beginner" THEN 6
  ELSE IF athlete_level = "advanced" THEN 8
  ELSE IF athlete_level = "elite" THEN 13
  ELSE 10
recovery_factor(athlete_level) ==
  IF athlete_level = "beginner" THEN 13
  ELSE IF athlete_level = "intermediate" THEN 10
  ELSE IF athlete_level = "advanced" THEN 8
  ELSE IF athlete_level = "elite" THEN 6
  ELSE 10

estimate_recovery_time(tss, athlete_level) ==
  LET adjusted_tss == tss * recovery_factor(athlete_level)
      unit == TssTenths * 10
  IN  IF adjusted_tss < 40 * unit THEN "12-18 heures"
      ELSE IF adjusted_tss < 60 * unit THEN "18-24 heures"
      ELSE IF adjusted_tss < 80 * unit THEN "24-36 heures"
      ELSE IF adjusted_tss < 120 * unit THEN "36-48 heures"
      ELSE "48-72 heures"

----------------------------------------------------------------------------
(* periodization_system.py: the level-keyed calculations *)

(* dict.get(key, default) on a dictionary held as a record *)
DictGet(d, key, default) == IF key \in DOMAIN d THEN d[key] ELSE default

experience_multipliers ==
  [beginner |-> 250, intermediate |-> 350, advanced |-> 450, elite |-> 550]

(* the result is held in tenths of a point: 350 * 0.7 is 2450 *)
BaseTssTenths == 10

(* available_hours.get("weekdays", 5) + available_hours.get("weekends", 8) *)
(* on athlete_profile.get("available_time", {})                            *)
weekly_hours_defaults_zero(athlete_profile) ==
  LET available_hours == DictGet(athlete_profile, "available_time", <<>>)
  IN  DictGet(available_hours, "weekdays", 0) + DictGet(available_hours, "weekends", 0)

weekly_hours(athlete_profile) ==
  LET available_hours == DictGet(athlete_profile, "available_time", <<>>)
  IN  DictGet(available_hours, "weekdays", 5) + DictGet(available_hours, "weekends", 8)

(* the factor applied to base_tss, in tenths: *= 0.7 below 6 hours,        *)
(* *= 1.3 above 12 hours, no assignment otherwise                          *)
hours_scale_inclusive(hours) ==
  IF hours <= 6 THEN 7 ELSE IF hours >= 12 THEN 13 ELSE 10

hours_scale(hours) ==
  IF hours < 6 THEN 7 ELSE IF hours > 12 THEN 13 ELSE 10

_calculate_base_tss(athlete_profile) ==
  LET base_tss == DictGet(experience_multipliers,
                          DictGet(athlete_profile, "experience_level", "intermediate"),
                          350)
  IN  base_tss * hours_scale(weekly_hours(athlete_profile))

(* coggan_model["ftp_improvement"], in percent *)
ftp_improvement == [beginner |-> 15, intermediate |-> 8, advanced |-> 5]

max_improvement_default_beginner(level) == DictGet(ftp_improvement, level, 15)
max_improvement(level) == DictGet(ftp_improvement, level, 8)

(* min(1.0, weeks / 20), in twentieths *)
time_factor_unbounded(weeks) == weeks
time_factor(weeks) == Min(20, weeks)

(* int(current_ftp + current_ftp * max_improvement * min(1.0, weeks / 20)) *)
_calculate_projected_ftp(current_ftp, level, weeks) ==
  (current_ftp * 2000 + current_ftp * max_improvement(level) * time_factor(weeks)) \div 2000

----------------------------------------------------------------------------
(* periodization_system.py: the periodization engine *)

(* the members of PeriodizationModel and TrainingPhase, by value *)
PeriodizationModel == {"traditional", "block", "polarized", "pyramidal", "reverse"}
TrainingPhase == {"base", "build", "peak", "recovery", "competition", "transition"}

(* self.intensity_distributions as __init__ builds it, shares in hundredths *)
intensity_distributions ==
  [polarized   |-> [Z1 |-> 75, Z2 |-> 5,  Z3 |-> 5,  Z4 |-> 5, Z5 |-> 10],
   pyramidal   |-> [Z1 |-> 60, Z2 |-> 20, Z3 |-> 10, Z4 |-> 7, Z5 |-> 3],
   traditional |-> [Z1 |-> 50, Z2 |-> 25, Z3 |-> 15, Z4 |-> 7, Z5 |-> 3]]

(* self.load_progressions as __init__ builds it, multipliers in tenths *)
load_progressions ==
  [base     |-> <<7, 8, 9, 6>>,
   build    |-> <<8, 9, 10, 7>>,
   peak     |-> <<9, 10, 8, 5>>,
   recovery |-> <<4, 5, 6, 7>>]

(* The tables the process holds: the two module-level dictionaries of      *)
(* core/knowledge_base.py and the two instance dictionaries of the engine. *)
(* They are ordinary mutable dictionaries, so they are part of the state.  *)
ConstantTables ==
  [POWER_ZONES |-> POWER_ZONES,
   ATHLETE_ADAPTATIONS |-> ATHLETE_ADAPTATIONS,
   intensity_distributions |-> intensity_distributions,
   load_progressions |-> load_progressions]

(* datetime values are counted in ticks of the wall clock; a calendar day  *)
(* has TicksPerDay of them                                                 *)
TicksPerDay == 2
timedelta(weeks, days) == (weeks * 7 + days) * TicksPerDay
(* datetime.strftime("%Y-%m-%d") keeps the calendar day and drops the time *)
(* of day; the day is held as its ordinal *)
strftime_ymd(datetime) == datetime \div TicksPerDay

(* int(x) on the quotient num/den with den > 0: truncation toward zero *)
int_trunc(num, den) == IF num >= 0 THEN num \div den ELSE -((-num) \div den)

Digits == {"0", "1", "2", "3", "4", "5", "6", "7", "8", "9"}
DigitValue(c) ==
  CASE c = "0" -> 0 [] c = "1" -> 1 [] c = "2" -> 2 [] c = "3" -> 3 [] c = "4" -> 4
    [] c = "5" -> 5 [] c = "6" -> 6 [] c = "7" -> 7 [] c = "8" -> 8 [] c = "9" -> 9

RECURSIVE DecimalValue(_)
DecimalValue(s) ==
  IF s = <<>> THEN 0
  ELSE DecimalValue(SubSeq(s, 1, Len(s) - 1)) * 10 + DigitValue(s[Len(s)])

IsLeapYear(year) == year % 4 = 0 /\ (year % 100 # 0 \/ year % 400 = 0)
DaysInMonth(year, month) ==
  IF month = 2 THEN (IF IsLeapYear(year) THEN 29 ELSE 28)
  ELSE IF month \in {4, 6, 9, 11} THEN 30 ELSE 31

(* the directive patterns of _strptime: %m is 1[0-2]|0[1-9]|[1-9] and %d   *)
(* is 3[0-1]|[1-2]\d|0[1-9]|[1-9]| [1-9]                                   *)
MatchesMonth(s) ==
  \/ Len(s) = 1 /\ s[1] \in Digits \ {"0"}
  \/ Len(s) = 2 /\ s[1] = "1" /\ s[2] \in {"0", "1", "2"}
  \/ Len(s) = 2 /\ s[1] = "0" /\ s[2] \in Digits \ {"0"}
MatchesDay(s) ==
  \/ Len(s) = 1 /\ s[1] \in Digits \ {"0"}
  \/ Len(s) = 2 /\ s[1] = "3" /\ s[2] \in {"0", "1"}
  \/ Len(s) = 2 /\ s[1] \in {"1", "2"} /\ s[2] \in Digits
  \/ Len(s) = 2 /\ s[1] \in {"0", " "} /\ s[2] \in Digits \ {"0"}
DayValue(s) == IF s[1] = " " THEN DigitValue(s[2]) ELSE DecimalValue(s)

(* datetime.strptime(date_string, "%Y-%m-%d"): four digits of year, a      *)
(* month and a day of one or two characters, nothing before or after; the  *)
(* date must exist.  Every other string raises ValueError.                 *)
strptime_ymd(date_string) ==
  LET n == Len(date_string)
      dash2 == IF n >= 7 /\ date_string[7] = "-" THEN 7 ELSE 8
      year_part == SubSeq(date_string, 1, 4)
      month_part == SubSeq(date_string, 6, dash2 - 1)
      day_part == SubSeq(date_string, dash2 + 1, n)
      shaped ==
        /\ n \in 8..10
        /\ \A i \in 1..4 : date_string[i] \in Digits
        /\ date_string[5] = "-"
        /\ date_string[dash2] = "-"
        /\ MatchesMonth(month_part)
        /\ MatchesDay(day_part)
  IN  IF ~shaped THEN [outcome |-> "raised", error |-> "ValueError"]
      ELSE LET year == DecimalValue(year_part)
               month == DecimalValue(month_part)
               day == DayValue(day_part)
           IN  IF year >= 1 /\ day <= DaysInMonth(year, month)
               THEN [outcome |-> "returned",
                     result |-> [year |-> year, month |-> month, day |-> day]]
               ELSE [outcome |-> "raised", error |-> "ValueError"]

(* A phase of the plan, as _calculate_phases hands it to _create_phase_weeks *)
PhaseInfo(phase, weeks) == [phase |-> phase, weeks |-> weeks]

(* the ratios of base and build by plan length, in tenths *)
standard_ratios(duration_weeks) ==
  IF duration_weeks >= 12 THEN [base |-> 5, build |-> 3]
  ELSE IF duration_weeks >= 8 THEN [base |-> 4, build |-> 4]
  ELSE [base |-> 3, build |-> 5]

_create_standard_phases(duration_weeks) ==
  LET ratio == standard_ratios(duration_weeks)
      base_weeks == Max(1, int_trunc(duration_weeks * ratio.base, 10))
      build_weeks == Max(1, int_trunc(duration_weeks * ratio.build, 10))
      peak_weeks == duration_weeks - base_weeks - build_weeks
  IN  << PhaseInfo("base", base_weeks), PhaseInfo("build", build_weeks),
         PhaseInfo("peak", peak_weeks) >>

(* list(reversed(phases)) *)
Reversed_not(s) == s
Reversed(s) == [i \in 1..Len(s) |-> s[Len(s) + 1 - i]]

event_build_weeks_no_reserve(duration_weeks, peak_weeks) == Min(8, duration_weeks - peak_weeks)
event_build_weeks(duration_weeks, peak_weeks) == Min(8, duration_weeks - peak_weeks - 2)

(* main_event["date"] and main_event['name'] raise KeyError on an event    *)
(* that lacks the key; the parsed date is not used afterwards.             *)
_calculate_phases_last_event(duration_weeks, target_events) ==
  IF target_events = <<>>
  THEN [outcome |-> "returned", result |-> _create_standard_phases(duration_weeks)]
  ELSE
    LET main_event == target_events[Len(target_events)]
        peak_weeks == 3
        build_weeks == event_build_weeks(duration_weeks, peak_weeks)
        base_weeks == duration_weeks - peak_weeks - build_weeks
        phases ==
          << PhaseInfo("peak", peak_weeks), PhaseInfo("build", build_weeks) >>
          \o (IF base_weeks > 0 THEN << PhaseInfo("base", base_weeks) >> ELSE << >>)
    IN  IF "date" \notin DOMAIN main_event
        THEN [outcome |-> "raised", error |-> "KeyError"]
        ELSE IF strptime_ymd(main_event.date).outcome = "raised"
        THEN [outcome |-> "raised", error |-> "ValueError"]
        ELSE IF "name" \notin DOMAIN main_event
        THEN [outcome |-> "raised", error |-> "KeyError"]
        ELSE [outcome |-> "returned", result |-> Reversed(phases)]

_calculate_phases(duration_weeks, target_events) ==
  IF target_events = <<>>
  THEN [outcome |-> "returned", result |-> _create_standard_phases(duration_weeks)]
  ELSE
    LET main_event == target_events[1]
        peak_weeks == 3
        build_weeks == event_build_weeks(duration_weeks, peak_weeks)
        base_weeks == duration_weeks - peak_weeks - build_weeks
        phases ==
          << PhaseInfo("peak", peak_weeks), PhaseInfo("build", build_weeks) >>
          \o (IF base_weeks > 0 THEN << PhaseInfo("base", base_weeks) >> ELSE << >>)
    IN  IF "date" \notin DOMAIN main_event
        THEN [outcome |-> "raised", error |-> "KeyError"]
        ELSE IF strptime_ymd(main_event.date).outcome = "raised"
        THEN [outcome |-> "raised", error |-> "ValueError"]
        ELSE IF "name" \notin DOMAIN main_event
        THEN [outcome |-> "raised", error |-> "KeyError"]
        ELSE [outcome |-> "returned", result |-> Reversed(phases)]

_get_phase_multiplier(phase) ==
  DictGet([base |-> 9, build |-> 11, peak |-> 10, recovery |-> 5], phase, 10)

(* the phase factors of the distribution, in tenths *)
phase_factors_peak_lowers_Z1 ==
  [base  |-> [Z1 |-> 12, Z2 |-> 11, Z3 |-> 8,  Z4 |-> 6,  Z5 |-> 5],
   build |-> [Z1 |-> 9,  Z2 |-> 9,  Z3 |-> 12, Z4 |-> 13, Z5 |-> 15],
   peak  |-> [Z1 |-> 9,  Z2 |-> 8,  Z3 |-> 9,  Z4 |-> 12, Z5 |-> 18]]

phase_factors ==
  [base  |-> [Z1 |-> 12, Z2 |-> 11, Z3 |-> 8,  Z4 |-> 6,  Z5 |-> 5],
   build |-> [Z1 |-> 9,  Z2 |-> 9,  Z3 |-> 12, Z4 |-> 13, Z5 |-> 15],
   peak  |-> [Z1 |-> 11, Z2 |-> 8,  Z3 |-> 9,  Z4 |-> 12, Z5 |-> 18]]

(* shares in thousandths; built as a new dictionary for base, build and    *)
(* peak, the table's own entry for every other phase                       *)
_get_intensity_distribution(distributions, phase, model) ==
  LET base_dist == DictGet(distributions, model, distributions["polarized"])
  IN  IF phase \in DOMAIN phase_factors
      THEN [z \in {"Z1", "Z2", "Z3", "Z4", "Z5"} |-> base_dist[z] * phase_factors[phase][z]]
      ELSE [z \in DOMAIN base_dist |-> base_dist[z] * 10]

_select_key_workouts(phase) ==
  DictGet([base  |-> <<"Endurance 90-120min", "Tempo 2x20min", "Endurance 60min + Force">>,
           build |-> <<"Threshold 2x20min", "VO2max 5x4min", "Endurance 90min">>,
           peak  |-> <<"VO2max 6x3min", "Anaerobic 5x2min", "Openers 3x1min">>],
          phase, <<"Endurance 60min">>)

(* the days of a template in the order the dictionary literal lists them *)
WeekDays ==
  <<"monday", "tuesday", "wednesday", "thursday", "friday", "saturday", "sunday">>

Session(type, duration, intensity) ==
  [type |-> type, duration |-> duration, intensity |-> intensity]
RestDay == [type |-> "rest"]

_create_weekly_workouts(phase) ==
  IF phase = "base" THEN
    [monday |-> Session("endurance", 60, "Z2"), tuesday |-> Session("threshold", 90, "Z4"),
     wednesday |-> Session("recovery", 45, "Z1"), thursday |-> Session("endurance", 90, "Z2"),
     friday |-> RestDay, saturday |-> Session("endurance", 120, "Z2"),
     sunday |-> Session("recovery", 60, "Z1")]
  ELSE IF phase = "build" THEN
    [monday |-> Session("recovery", 45, "Z1"), tuesday |-> Session("vo2max", 75, "Z5"),
     wednesday |-> Session("endurance", 60, "Z2"), thursday |-> Session("threshold", 90, "Z4"),
     friday |-> RestDay, saturday |-> Session("endurance", 90, "Z2"),
     sunday |-> Session("recovery", 60, "Z1")]
  ELSE IF phase = "peak" THEN
    [monday |-> Session("recovery", 45, "Z1"), tuesday |-> Session("vo2max", 60, "Z5"),
     wednesday |-> RestDay, thursday |-> Session("openers", 45, "Z6"),
     friday |-> RestDay, saturday |-> Session("endurance", 60, "Z2"),
     sunday |-> Session("recovery", 45, "Z1")]
  ELSE << >>

(* emphases in tenths *)
_get_volume_emphasis(phase) == DictGet([base |-> 8, build |-> 6, peak |-> 3], phase, 5)
_get_intensity_emphasis(phase) == DictGet([base |-> 2, build |-> 7, peak |-> 8], phase, 5)

(* in hundredths: the base value of the phase, times 1.5 in the 4th week   *)
_get_recovery_emphasis_first_week(phase, week_in_cycle) ==
  LET base_recovery == DictGet([base |-> 3, build |-> 4, peak |-> 6], phase, 4)
  IN  IF week_in_cycle = 0 THEN base_recovery * 15 ELSE base_recovery * 10

_get_recovery_emphasis(phase, week_in_cycle) ==
  LET base_recovery == DictGet([base |-> 3, build |-> 4, peak |-> 6], phase, 4)
  IN  IF week_in_cycle = 3 THEN base_recovery * 15 ELSE base_recovery * 10

(* tss_target is base_tss * phase_multiplier * load_multiplier, held in    *)
(* thousandths of a point (tenths times tenths times tenths); hours_target *)
(* is tss_target / 60, held as the same numerator over 60000.  The text    *)
(* fields of a week (focus, rationale, adaptations_expected) are left out. *)
TrainingLoad(tss_target, intensity_distribution, key_workouts, volume_emphasis, intensity_emphasis) ==
  [tss_target |-> tss_target, hours_target |-> tss_target,
   intensity_distribution |-> intensity_distribution, key_workouts |-> key_workouts,
   volume_emphasis |-> volume_emphasis, intensity_emphasis |-> intensity_emphasis]

WeeklyPlan(week_number, phase, training_load, workouts, recovery_emphasis) ==
  [week_number |-> week_number, phase |-> phase, training_load |-> training_load,
   workouts |-> workouts, recovery_emphasis |-> recovery_emphasis]

(* range(weeks_count) is empty for weeks_count <= 0; self.load_progressions[phase] *)
(* is read from the engine's table                                         *)
_create_phase_weeks(engine, phase_info, start_week, athlete_profile, model) ==
  LET phase == phase_info.phase
      base_tss == _calculate_base_tss(athlete_profile)
      load_progression == engine.load_progressions[phase]
      week(week_offset) ==
        LET progress_index == week_offset % Len(load_progression)
            load_multiplier == load_progression[progress_index + 1]
            week_tss == base_tss * _get_phase_multiplier(phase) * load_multiplier
        IN  WeeklyPlan(start_week + week_offset, phase,
                       TrainingLoad(week_tss,
                                    _get_intensity_distribution(engine.intensity_distributions,
                                                                phase, model),
                                    _select_key_workouts(phase),
                                    _get_volume_emphasis(phase),
                                    _get_intensity_emphasis(phase)),
                       _create_weekly_workouts(phase),
                       _get_recovery_emphasis(phase, progress_index))
  IN  [i \in 1..Max(0, phase_info.weeks) |-> week(i - 1)]

PeriodizationPlan(athlete_id, start_date, end_date, target_events, periodization_model, weekly_plans, total_weeks, current_ftp, projected_ftp) ==
  [athlete_id |-> athlete_id, start_date |-> start_date, end_date |-> end_date,
   target_events |-> target_events, periodization_model |-> periodization_model,
   weekly_plans |-> weekly_plans, total_weeks |-> total_weeks,
   current_ftp |-> current_ftp, projected_ftp |-> projected_ftp]

(* the loop over the phases: weekly_plans.extend(phase_weeks) and          *)
(* current_week += len(phase_weeks)                                        *)
RECURSIVE extend_weekly_plans(_, _, _, _, _)
extend_weekly_plans(engine, phases, current_week, athlete_profile, model) ==
  IF phases = <<>> THEN <<>>
  ELSE LET phase_weeks == _create_phase_weeks(engine, Head(phases), current_week,
                                              athlete_profile, model)
       IN  phase_weeks \o extend_weekly_plans(engine, Tail(phases),
                                              current_week + Len(phase_weeks),
                                              athlete_profile, model)

(* now is the value datetime.now() returns.  A raise records how many      *)
(* weekly plans the call had generated when it raised.                     *)
create_periodization_plan(engine, athlete_profile, target_events, duration_weeks, model, now) ==
  LET start_date == now
      end_date == start_date + timedelta(duration_weeks, 0)
      phases == _calculate_phases(duration_weeks, target_events)
      weekly_plans == extend_weekly_plans(engine, phases.result, 1, athlete_profile, model)
      missing == { k \in {"ftp", "experience_level", "user_id"} :
                     k \notin DOMAIN athlete_profile }
  IN  IF phases.outcome = "raised"
      THEN [outcome |-> "raised", error |-> phases.error, weeks_generated |-> 0]
      ELSE IF missing # {}
      THEN [outcome |-> "raised", error |-> "KeyError",
            weeks_generated |-> Len(weekly_plans)]
      ELSE [outcome |-> "returned",
            result |->
              PeriodizationPlan(athlete_profile.user_id, start_date, end_date,
                                target_events, model, weekly_plans, duration_weeks,
                                athlete_profile.ftp,
                                _calculate_projected_ftp(athlete_profile.ftp,
                                                         athlete_profile.experience_level,
                                                         duration_weeks))]

(* list(week_plan.workouts.keys()).index(day) *)
DayIndex_first(workouts, day) == 0

DayIndex(workouts, day) ==
  Cardinality({ j \in 1..Len(WeekDays) :
                  WeekDays[j] \in DOMAIN workouts
                  /\ j < (CHOOSE k \in 1..Len(WeekDays) : WeekDays[k] = day) })

(* current_date starts at plan.start_date and advances by one week per     *)
(* weekly plan                                                             *)
create_training_calendar(plan) ==
  LET week_info(i) ==
        LET week_plan == plan.weekly_plans[i]
            current_date == plan.start_date + timedelta(i - 1, 0)
        IN  [week_number |-> week_plan.week_number,
             start_date |-> strftime_ymd(current_date),
             phase |-> week_plan.phase,
             target_tss |-> week_plan.training_load.tss_target,
             target_hours |-> week_plan.training_load.hours_target,
             daily_workouts |->
               [day \in DOMAIN week_plan.workouts |->
                  [date |-> strftime_ymd(current_date
                                         + timedelta(0, DayIndex(week_plan.workouts, day))),
                   workout |-> week_plan.workouts[day]]]]
  IN  [athlete_id |-> plan.athlete_id,
       plan_overview |->
         [duration_weeks |-> plan.total_weeks,
          periodization_model |-> plan.periodization_model,
          ftp_progression |-> <<plan.current_ftp, plan.projected_ftp>>,
          target_events |-> plan.target_events],
       weekly_calendar |-> [i \in 1..Len(plan.weekly_plans) |-> week_info(i)]]

(* KnowledgeBaseManager.get_zone_info: POWER_ZONES.get(zone_id), which is   *)
(* None for an identifier the table does not hold                          *)
None == [none |-> TRUE]
get_zone_info(zones, zone_id) ==
  [outcome |-> "returned", result |-> DictGet(zones, zone_id, None)]

(* calculator.validate_workout_structure(workout): the issues in the order *)
(* the code appends them, each with the value its message shows            *)
Issue(issue, value) == [issue |-> issue, value |-> value]

RECURSIVE Concat(_)
Concat(lists) == IF lists = <<>> THEN <<>> ELSE Head(lists) \o Concat(Tail(lists))

segment_issues(segment) ==
  (IF segment.power_pct_ftp[1] < 400 \/ segment.power_pct_ftp[2] > 3000
   THEN << Issue("Zone de puissance invalide dans segment", segment.power_pct_ftp) >>
   ELSE << >>)
  \o (IF segment.power_pct_ftp[1] >= segment.power_pct_ftp[2]
      THEN << Issue("Puissance min >= max dans segment", segment.power_pct_ftp) >>
      ELSE << >>)

interval_issues(interval) ==
  (IF interval.work_power_pct[1] < 400 \/ interval.work_power_pct[2] > 3000
   THEN << Issue("Zone de travail invalide", interval.work_power_pct) >>
   ELSE << >>)
  \o (IF interval.rest_power_pct[1] < 300 \/ interval.rest_power_pct[2] > 1000
      THEN << Issue("Zone de repos invalide", interval.rest_power_pct) >>
      ELSE << >>)

validate_workout_structure(w) ==
  LET calculated_duration == calculate_actual_duration(w)
      has_warmup == \E i \in 1..Len(w.segments) : w.segments[i].type = "Warmup"
      has_cooldown == \E i \in 1..Len(w.segments) : w.segments[i].type = "Cooldown"
      difference == calculated_duration - w.total_duration
  IN  (IF (IF difference >= 0 THEN difference ELSE -difference) > 5
       THEN << Issue("Duree incoherente", <<calculated_duration, w.total_duration>>) >>
       ELSE << >>)
      \o Concat([i \in 1..Len(w.segments) |-> segment_issues(w.segments[i])])
      \o Concat([i \in 1..Len(w.repeated_intervals) |->
                   interval_issues(w.repeated_intervals[i])])
      \o (IF w.segments = <<>> THEN << Issue("Aucun segment defini", << >>) >> ELSE << >>)
      \o (IF ~has_warmup /\ w.total_duration > 30
          THEN << Issue("Echauffement recommande pour seances > 30min", << >>) >>
          ELSE << >>)
      \o (IF ~has_cooldown /\ w.total_duration > 30
          THEN << Issue("Retour au calme recommande pour seances > 30min", << >>) >>
          ELSE << >>)

----------------------------------------------------------------------------
(* Inputs *)

(* requested minutes, a few non-positive ones included *)
Durations == (-MaxOverdraft)..MaxDuration
LevelKeys == {"beginner", "intermediate", "advanced", "elite"}
LevelInputs == LevelKeys \cup {"expert", ""}
FtpInputs == {-50, 0, 320}
ThresholdInputs == {500, 560, DefaultThresholdPct, 1060}

CanonicalTypes ==
  { <<"v","o","2","m","a","x">>, <<"t","h","r","e","s","h","o","l","d">>,
    <<"e","n","d","u","r","a","n","c","e">>, <<"r","e","c","o","v","e","r","y">>,
    <<"t","e","m","p","o">> }
UnknownTypes ==
  { <<>>, <<"s","p","r","i","n","t">>, <<"z","4">>, <<"v","o","2"," ","m","a","x">>,
    <<"r","e","c","u","p">> }

(* every alias with each subset of its first MaxCasePrefix letters in      *)
(* upper case, and in upper case throughout                                *)
ApplyUpper(s, positions) ==
  [i \in 1..Len(s) |-> IF i \in positions THEN UpperChar(s[i]) ELSE s[i]]

CaseVariants(s) ==
  { ApplyUpper(s, positions) : positions \in SUBSET (1..Min(Len(s), MaxCasePrefix)) }
  \cup { ApplyUpper(s, 1..Len(s)) }

AllAliases ==
  Vo2maxAliases \cup ThresholdAliases \cup EnduranceAliases \cup RecoveryAliases
  \cup TempoAliases

AliasTypeInputs == UNION { CaseVariants(a) : a \in AllAliases } \cup UnknownTypes
AliasDurations == { d \in Durations : d % 15 = 0 }
AliasLevels == {"beginner", "intermediate"}

TssInputs == 0..(MaxTss * TssTenths)
WeeksInputs == 1..MaxWeeks
CurrentFtpInputs == {200, 250, 320}

(* athlete profiles: each key may be missing *)
AvailableTimes ==
  { [weekdays |-> a, weekends |-> b] : a \in 0..MaxWeekdayHours, b \in 0..MaxWeekendHours }
  \cup { [weekdays |-> a] : a \in 0..MaxWeekdayHours }
  \cup { [weekends |-> b] : b \in 0..MaxWeekendHours }
  \cup { <<>> }

AthleteProfiles ==
  { [experience_level |-> l, available_time |-> t] : l \in LevelInputs, t \in AvailableTimes }
  \cup { [experience_level |-> l] : l \in LevelInputs }
  \cup { [available_time |-> t] : t \in AvailableTimes }

(* event dates as the caller writes them: well-formed ones, a leap day,    *)
(* and strings strptime does not accept                                    *)
ExampleDate == <<"2","0","2","5","-","0","9","-","1","5">>
ValidDates ==
  { ExampleDate,
    <<"2","0","2","4","-","2","-","2","9">>,
    <<"1","9","9","9","-","1","2","-","3","1">>,
    <<"9","9","9","9","-","1","2","-","3","1">> }
MalformedDates ==
  { << >>,
    <<"1","5","/","0","9","/","2","0","2","5">>,
    <<"2","0","2","5","-","0","2","-","2","9">>,
    <<"2","0","2","5","-","1","3","-","0","1">>,
    <<"2","0","2","5","-","0","9","-","1","5"," ">> }

TargetEvent(name, date, priority) ==
  [name |-> name, date |-> date, type |-> "road_race", priority |-> priority]

TargetEventLists ==
  { << >> }
  \cup { << TargetEvent("Course FFC Open 3", d, "A") >> : d \in ValidDates \cup MalformedDates }
  \cup { << TargetEvent("Course FFC Open 3", ExampleDate, "B") >>,
         << TargetEvent("Course FFC Open 3", ExampleDate, "A"),
            TargetEvent("Gran Fondo", << >>, "B") >>,
         << [name |-> "Course FFC Open 3", priority |-> "A"] >>,
         << [date |-> ExampleDate, priority |-> "A"] >> }

(* the profile of create_example_plan, with other levels and hours, and    *)
(* one that lacks its experience_level                                     *)
PlanProfile(level, weekdays, weekends) ==
  [user_id |-> "cyclist_001", ftp |-> 320, experience_level |-> level,
   available_time |-> [weekdays |-> weekdays, weekends |-> weekends]]
PlanProfiles ==
  { PlanProfile("intermediate", 8, 12), PlanProfile("beginner", 2, 3),
    PlanProfile("expert", 4, 6),
    [user_id |-> "cyclist_001", ftp |-> 320,
     available_time |-> [weekdays |-> 8, weekends |-> 12]] }

PlanWeeks == (-MaxOverdraft)..MaxPlanWeeks
PlanModels == {"polarized", "pyramidal", "traditional", "block"}

ZoneIds == DOMAIN POWER_ZONES \cup {"Z0", "Z8", "z4", ""}

NoWorkout == [type |-> "none"]
NoCall == [op |-> "none"]

(* The arguments of a pending builder.create_smart_workout call *)
BuildRequests(types, durations, levels, ftps) ==
  { [op |-> "create_smart_workout", workout_type |-> t, duration |-> d,
     level |-> l, ftp |-> f] :
      t \in types, d \in durations, l \in levels, f \in ftps }

RecoveryRequests ==
  { [op |-> "estimate_recovery_time", tss |-> t, athlete_level |-> l] :
      t \in TssInputs, l \in LevelInputs }

BaseTssRequests ==
  { [op |-> "_calculate_base_tss", athlete_profile |-> p] : p \in AthleteProfiles }

ProjectedFtpRequests ==
  { [op |-> "_calculate_projected_ftp", current_ftp |-> f, level |-> l, weeks |-> w] :
      f \in CurrentFtpInputs, l \in LevelInputs, w \in WeeksInputs }

PlanRequests ==
  { [op |-> "create_periodization_plan", athlete_profile |-> p, target_events |-> e,
     duration_weeks |-> w, model |-> m] :
      p \in PlanProfiles, e \in TargetEventLists, w \in PlanWeeks, m \in PlanModels }

ZoneRequests == { [op |-> "get_zone_info", zone_id |-> z] : z \in ZoneIds }

Init ==
  /\ request \in
       BuildRequests(CanonicalTypes \cup {<<"s","p","r","i","n","t">>},
                     Durations, LevelInputs, FtpInputs)
       \cup BuildRequests(AliasTypeInputs, AliasDurations, AliasLevels, {320})
       \cup RecoveryRequests \cup BaseTssRequests \cup ProjectedFtpRequests
       \cup PlanRequests \cup ZoneRequests
  /\ workout = NoWorkout
  /\ call = NoCall
  /\ clock = 0
  /\ tables = ConstantTables

(* builder.create_smart_workout(type, duration, level, ftp): no path of    *)
(* the method raises for integer arguments.                                *)
CreateSmartWorkout ==
  /\ request.op = "create_smart_workout"
  /\ workout = NoWorkout
  /\ workout' = create_smart_workout(request.workout_type, request.duration,
                                     request.level, request.ftp)
  /\ call' = [op |-> "create_smart_workout", outcome |-> "returned"]
  /\ UNCHANGED <<request, clock, tables>>

(* a session is at hand: built by the builder, or constructed by the caller *)
Built == workout # NoWorkout /\ call.op \in {"create_smart_workout", "SmartWorkout"}

(* calculator.calculate_tss(workout.segments, workout.repeated_intervals, ftp) *)
CalculateTss ==
  /\ Built
  /\ call' = [op |-> "calculate_tss", outcome |-> "returned",
              result |-> calculate_tss(workout.segments, workout.repeated_intervals,
                                       workout.ftp)]
  /\ UNCHANGED <<request, workout, clock, tables>>

(* calculator.calculate_intensity_factor(workout) *)
CalculateIntensityFactor ==
  /\ Built
  /\ call' = [op |-> "calculate_intensity_factor"] @@ calculate_intensity_factor(workout)
  /\ UNCHANGED <<request, workout, clock, tables>>

(* calculator.calculate_high_intensity_time(workout, threshold_pct) *)
CalculateHighIntensityTime ==
  /\ Built
  /\ \E threshold_pct \in ThresholdInputs :
       call' = [op |-> "calculate_high_intensity_time", outcome |-> "returned",
                threshold_pct |-> threshold_pct,
                result |-> calculate_high_intensity_time(workout, threshold_pct)]
  /\ UNCHANGED <<request, workout, clock, tables>>

(* calculator.estimate_recovery_time(tss, athlete_level) *)
EstimateRecoveryTime ==
  /\ request.op = "estimate_recovery_time"
  /\ call = NoCall
  /\ call' = [op |-> "estimate_recovery_time", outcome |-> "returned",
              result |-> estimate_recovery_time(request.tss, request.athlete_level)]
  /\ UNCHANGED <<request, workout, clock, tables>>

(* engine._calculate_base_tss(athlete_profile) *)
CalculateBaseTss ==
  /\ request.op = "_calculate_base_tss"
  /\ call = NoCall
  /\ call' = [op |-> "_calculate_base_tss", outcome |-> "returned",
              result |-> _calculate_base_tss(request.athlete_profile)]
  /\ UNCHANGED <<request, workout, clock, tables>>

(* engine._calculate_projected_ftp(current_ftp, level, weeks) *)
CalculateProjectedFtp ==
  /\ request.op = "_calculate_projected_ftp"
  /\ call = NoCall
  /\ call' = [op |-> "_calculate_projected_ftp", outcome |-> "returned",
              result |-> _calculate_projected_ftp(request.current_ftp, request.level,
                                                  request.weeks)]
  /\ UNCHANGED <<request, workout, clock, tables>>

(* calculator.validate_workout_structure(workout) *)
ValidateWorkoutStructure ==
  /\ Built
  /\ call' = [op |-> "validate_workout_structure", outcome |-> "returned",
              result |-> validate_workout_structure(workout)]
  /\ UNCHANGED <<request, workout, clock, tables>>

(* KnowledgeBaseManager.get_zone_info(zone_id) *)
GetZoneInfo ==
  /\ request.op = "get_zone_info"
  /\ call = NoCall
  /\ call' = [op |-> "get_zone_info"] @@ get_zone_info(tables.POWER_ZONES, request.zone_id)
  /\ UNCHANGED <<request, workout, clock, tables>>

(* The wall clock advances while a plan request is at hand; no other       *)
(* operation reads it.                                                     *)
Tick ==
  /\ request.op = "create_periodization_plan"
  /\ clock < MaxClock
  /\ clock' = clock + 1
  /\ UNCHANGED <<request, workout, call, tables>>

(* a variant that stores the adjusted distribution of the first phase back *)
(* into the engine's table, as an in-place update of base_dist would       *)
CreatePeriodizationPlan_in_place ==
  /\ request.op = "create_periodization_plan"
  /\ call.op \in {"none", "create_periodization_plan"}
  /\ call' = [op |-> "create_periodization_plan"]
              @@ create_periodization_plan(tables, request.athlete_profile,
                                           request.target_events,
                                           request.duration_weeks, request.model, clock)
  /\ tables' = [tables EXCEPT !.intensity_distributions.polarized =
                  _get_intensity_distribution(tables.intensity_distributions,
                                              "base", "polarized")]
  /\ UNCHANGED <<request, workout, clock>>

(* engine.create_periodization_plan(athlete_profile, target_events,        *)
(* duration_weeks, model); the caller may repeat the call with the same    *)
(* arguments.  The engine reads its tables and assigns to none of them,    *)
(* nor to its arguments.                                                   *)
CreatePeriodizationPlan ==
  /\ request.op = "create_periodization_plan"
  /\ call.op \in {"none", "create_periodization_plan"}
  /\ call' = [op |-> "create_periodization_plan"]
              @@ create_periodization_plan(tables, request.athlete_profile,
                                           request.target_events,
                                           request.duration_weeks, request.model, clock)
  /\ UNCHANGED <<request, workout, clock, tables>>

(* engine.create_training_calendar(plan) on the plan the engine returned *)
CreateTrainingCalendar ==
  /\ call.op = "create_periodization_plan"
  /\ call.outcome = "returned"
  /\ call' = [op |-> "create_training_calendar", outcome |-> "returned",
              plan |-> call.result, result |-> create_training_calendar(call.result)]
  /\ UNCHANGED <<request, workout, clock, tables>>

Next ==
  \/ CreateSmartWorkout
  \/ CalculateTss
  \/ CalculateIntensityFactor
  \/ CalculateHighIntensityTime
  \/ EstimateRecoveryTime
  \/ CalculateBaseTss
  \/ CalculateProjectedFtp
  \/ ValidateWorkoutStructure
  \/ GetZoneInfo
  \/ Tick
  \/ CreatePeriodizationPlan
  \/ CreateTrainingCalendar

Spec == Init /\ [][Next]_vars

----------------------------------------------------------------------------
(* The calculator applied to sessions the caller constructs directly *)

SegMinutes == 0..MaxSegMinutes \cup {60}
SegPowers ==
  { <<0, 0>>, POWER_ZONES.Z1, POWER_ZONES.Z3, POWER_ZONES.Z4, <<PowerScale, PowerScale>> }

SegmentInputs ==
  { WorkoutSegment("SteadyState", m, p, 90) : m \in SegMinutes, p \in SegPowers }
SecondSegments ==
  { WorkoutSegment("Cooldown", 2, POWER_ZONES.Z1, 80),
    WorkoutSegment("Cooldown", 0, POWER_ZONES.Z4, 80) }

BlockReps == 1..MaxReps
BlockWorkMinutes == {0, 1, MaxSegMinutes}
BlockRestMinutes == {0, 2}
(* two work ranges of the zone table, an inverted one and one out of range *)
BlockWorkPowers == { POWER_ZONES.Z3, POWER_ZONES.Z4, <<1100, 1000>>, <<350, 3200>> }
BlockRestPowers == { <<0, 0>>, POWER_ZONES.Z2 }

BlockInputs ==
  { RepeatedInterval(r, w, wp, 95, rest, rp, 85) :
      r \in BlockReps, w \in BlockWorkMinutes, wp \in BlockWorkPowers,
      rest \in BlockRestMinutes, rp \in BlockRestPowers }
SecondBlock == RepeatedInterval(2, 3, POWER_ZONES.Z5, 100, 1, POWER_ZONES.Z1, 85)

SegmentLists ==
  { <<>> } \cup { <<a>> : a \in SegmentInputs }
  \cup { <<a, b>> : a \in SegmentInputs, b \in SecondSegments }
BlockLists ==
  { <<>> } \cup { <<a>> : a \in BlockInputs } \cup { <<a, SecondBlock>> : a \in BlockInputs }

DirectSession(segments, intervals) ==
  LET w == SmartWorkout("custom", 0, segments, intervals, 320, <<>>)
  IN  [w EXCEPT !.total_duration = calculate_actual_duration(w)]

InitCalc ==
  /\ request = [op |-> "SmartWorkout"]
  /\ workout \in { DirectSession(segs, blocks) : segs \in SegmentLists, blocks \in BlockLists }
  /\ call = [op |-> "SmartWorkout", outcome |-> "returned"]
  /\ clock = 0
  /\ tables = ConstantTables

NextCalc ==
  \/ CalculateTss
  \/ CalculateIntensityFactor
  \/ ValidateWorkoutStructure

SpecCalc == InitCalc /\ [][NextCalc]_vars

----------------------------------------------------------------------------
(* Properties of the session builder *)

Vo2maxType == <<"v","o","2","m","a","x">>
ThresholdType == <<"t","h","r","e","s","h","o","l","d">>
EnduranceType == <<"e","n","d","u","r","a","n","c","e">>
RecoveryType == <<"r","e","c","o","v","e","r","y">>
TempoType == <<"t","e","m","p","o">>

Abs(x) == IF x < 0 THEN -x ELSE x

(* the entry of the level table that holds "the level's" values *)
LevelEntry(level) ==
  IF level \in LevelKeys THEN ATHLETE_ADAPTATIONS[level]
  ELSE ATHLETE_ADAPTATIONS["intermediate"]

(* C1: a session built for a VO2max type, whatever the requested duration  *)
(* and level, has exactly the three fixed segments Warmup 15, SteadyState  *)
(* 10, Cooldown 15 and exactly one repeated block, with 3 <= repetitions   *)
(* <= the level's max_reps, work = min(the level's max_duration, 4) and    *)
(* rest = max(2, floor(work * recovery_ratio)); for ("vo2max", 75,         *)
(* "intermediate", 320) the repetitions are in 3..5 and work <= 4.         *)
C1_Vo2maxStructure ==
  (workout # NoWorkout /\ workout.type = "vo2max") =>
    LET lvl == LevelEntry(request.level).vo2max_intervals
        segs == workout.segments
        blocks == workout.repeated_intervals
    IN  /\ Len(segs) = 3
        /\ segs[1].type = "Warmup" /\ segs[1].duration_minutes = 15
        /\ segs[2].type = "SteadyState" /\ segs[2].duration_minutes = 10
        /\ segs[3].type = "Cooldown" /\ segs[3].duration_minutes = 15
        /\ Len(blocks) = 1
        /\ blocks[1].repetitions >= 3
        /\ blocks[1].repetitions <= lvl.max_reps
        /\ blocks[1].work_duration = Min(lvl.max_duration, 4)
        /\ blocks[1].rest_duration
             = Max(2, (blocks[1].work_duration * lvl.recovery_ratio) \div 100)
        /\ (request.duration = 75 /\ request.level = "intermediate" /\ request.ftp = 320)
             => /\ request.workout_type = Vo2maxType => blocks[1].repetitions \in 3..5
                /\ blocks[1].work_duration <= 4

(* a VO2max session has been built for a duration too short for three      *)
(* repetitions, and holds three *)
C1_Witness ==
  /\ workout # NoWorkout
  /\ request.workout_type = Vo2maxType
  /\ request.duration < 40
  /\ workout.repeated_intervals[1].repetitions = 3

(* C2: for a requested duration > 0 and FTP > 0 the actual duration of the *)
(* built session is within 5 minutes of the requested one, except that a   *)
(* VO2max session may exceed it by at most one interval cycle.             *)
C2_DurationWithinTolerance ==
  (workout # NoWorkout /\ request.duration > 0 /\ request.ftp > 0) =>
    LET actual == calculate_actual_duration(workout)
    IN  \/ Abs(actual - request.duration) <= 5
        \/ /\ workout.type = "vo2max"
           /\ actual > request.duration
           /\ actual - request.duration
                <= workout.repeated_intervals[1].work_duration
                   + workout.repeated_intervals[1].rest_duration

(* C3: create_smart_workout with duration <= 0 or FTP <= 0 fails with a    *)
(* validation error and returns no session.                                *)
C3_NonPositiveInputRejected ==
  (call.op = "create_smart_workout" /\ (request.duration <= 0 \/ request.ftp <= 0)) =>
    /\ call.outcome = "raised"
    /\ workout = NoWorkout

(* Case-insensitive equality of two type strings *)
EqualsIgnoreCase(a, b) ==
  /\ Len(a) = Len(b)
  /\ \A i \in 1..Len(a) : LowerChar(a[i]) = LowerChar(b[i])

TypeGroup(canonical, aliases) == [canonical |-> canonical, aliases |-> aliases]

(* the alias groups as the specification lists them *)
ListedGroups ==
  { TypeGroup(Vo2maxType, {Vo2maxType, <<"v","o","2">>, <<"p","m","a">>}),
    TypeGroup(ThresholdType, {ThresholdType, <<"s","e","u","i","l">>, <<"f","t","p">>}),
    TypeGroup(EnduranceType, {EnduranceType, <<"z","2">>, <<"b","a","s","e">>}),
    TypeGroup(RecoveryType, {RecoveryType, <<"z","1">>}),
    TypeGroup(TempoType, {TempoType, <<"z","3">>}) }

(* the same groups with "recuperation" among the recovery aliases *)
DispatchedGroups ==
  { IF g.canonical = RecoveryType
    THEN TypeGroup(RecoveryType,
                   g.aliases \cup {<<"r","e","c","u","p","e","r","a","t","i","o","n">>})
    ELSE g : g \in ListedGroups }

InGroup(t, g) == \E a \in g.aliases : EqualsIgnoreCase(t, a)

(* the canonical name of the group of t, "vo2max" when t is in no group *)
CanonicalOf(t, groups) ==
  IF \E g \in groups : InGroup(t, g)
  THEN (CHOOSE g \in groups : InGroup(t, g)).canonical
  ELSE Vo2maxType

(* the template of a canonical name, called directly *)
TemplateOf(canonical, duration, level, ftp) ==
  LET adaptations == level_adaptations(level)
  IN  CASE canonical = Vo2maxType -> _create_vo2max_workout(duration, level, ftp, adaptations)
        [] canonical = ThresholdType -> _create_threshold_workout(duration, level, ftp, adaptations)
        [] canonical = EnduranceType -> _create_endurance_workout(duration, level, ftp, adaptations)
        [] canonical = RecoveryType -> _create_recovery_workout(duration, level, ftp, adaptations)
        [] canonical = TempoType -> _create_tempo_workout(duration, level, ftp, adaptations)

AliasMatching(groups) ==
  (workout # NoWorkout /\ request.op = "create_smart_workout") =>
    LET canonical == CanonicalOf(request.workout_type, groups)
    IN  /\ call.op = "create_smart_workout" => call.outcome = "returned"
        /\ workout = TemplateOf(canonical, request.duration, request.level, request.ftp)
        /\ workout = create_smart_workout(canonical, request.duration, request.level,
                                          request.ftp)

(* C4 as stated: every alias of a group vo2max|vo2|pma, threshold|seuil|ftp, *)
(* endurance|z2|base, recovery|z1, tempo|z3, in any letter case, yields the  *)
(* session of the group's canonical name, and every other string yields the *)
(* session produced for "vo2max".                                            *)
C4_AliasMatchingAsListed == AliasMatching(ListedGroups)

(* C4, amended: as above with the recovery group recovery|recuperation|z1.  *)
C4_AliasMatching == AliasMatching(DispatchedGroups)

(* "RECUPERATION" has produced a recovery session *)
C4_Witness ==
  /\ workout # NoWorkout
  /\ request.op = "create_smart_workout"
  /\ request.workout_type = <<"R","E","C","U","P","E","R","A","T","I","O","N">>
  /\ workout.type = "recovery"

(* C5: a level string that is not a key of the level table gives the       *)
(* intermediate values everywhere: the builder uses max_reps 5, max block  *)
(* durations 5 and 25 and ratios 0.75 and 0.25, estimate_recovery_time     *)
(* returns the bucket of "intermediate", the base weekly stress score is   *)
(* 350 (before the scaling by hours) and the FTP projection uses 8%, also  *)
(* for "elite".                                                            *)
C5_UnknownLevelIsIntermediate ==
  /\ (workout # NoWorkout /\ request.op = "create_smart_workout"
        /\ request.level \notin LevelKeys) =>
       LET same == create_smart_workout(request.workout_type, request.duration,
                                        "intermediate", request.ftp)
       IN  /\ workout.segments = same.segments
           /\ workout.repeated_intervals = same.repeated_intervals
           /\ workout.type = "vo2max" =>
                /\ workout.adaptation_notes[3] = 5
                /\ workout.adaptation_notes[4] = 75
                /\ workout.repeated_intervals[1].work_duration = Min(5, 4)
           /\ workout.type = "threshold" =>
                /\ workout.adaptation_notes[3] = 25
                /\ \A i \in 1..Len(workout.repeated_intervals) :
                     workout.repeated_intervals[i].work_duration <= 25
  /\ (call.op = "estimate_recovery_time" /\ request.athlete_level \notin LevelKeys) =>
       call.result = estimate_recovery_time(request.tss, "intermediate")
  /\ (call.op = "_calculate_base_tss"
        /\ "experience_level" \in DOMAIN request.athlete_profile
        /\ request.athlete_profile.experience_level \notin LevelKeys) =>
       /\ call.result \in {350 * 7, 350 * 10, 350 * 13}
       /\ call.result = _calculate_base_tss(
            [request.athlete_profile EXCEPT !.experience_level = "intermediate"])
  /\ (call.op = "_calculate_projected_ftp"
        /\ request.level \notin {"beginner", "intermediate", "advanced"}) =>
       call.result = (request.current_ftp * 2000
                      + request.current_ftp * 8 * Min(20, request.weeks)) \div 2000

(* the projection has run for "elite" over 20 weeks from 250 W: 270 W *)
C5_Witness ==
  /\ call.op = "_calculate_projected_ftp"
  /\ request.level = "elite"
  /\ request.current_ftp = 250
  /\ request.weeks = 20
  /\ call.result = 270

----------------------------------------------------------------------------
(* Properties of the training-load calculator *)

(* the claimed intensity factor: sum of power * minutes over all segments  *)
(* and all work and rest phases, over the sum of minutes; 0 for 0 minutes  *)
WeightedMeanPower(w) ==
  LET weighted ==
        SumSeq([i \in 1..Len(w.segments) |->
                  (w.segments[i].power_pct_ftp[1] + w.segments[i].power_pct_ftp[2])
                  * w.segments[i].duration_minutes])
        + SumSeq([i \in 1..Len(w.repeated_intervals) |->
                    LET b == w.repeated_intervals[i]
                    IN  b.repetitions
                        * ((b.work_power_pct[1] + b.work_power_pct[2]) * b.work_duration
                           + (b.rest_power_pct[1] + b.rest_power_pct[2]) * b.rest_duration)])
      minutes == calculate_actual_duration(w)
  IN  IF minutes = 0 THEN <<0, 1>> ELSE <<weighted, minutes>>

(* C8: calculate_intensity_factor returns the time-weighted mean of the    *)
(* midpoint powers over all segments and interval phases, and 0 without    *)
(* error when the total duration is 0.                                     *)
C8_IntensityFactorWeightedMean ==
  call.op = "calculate_intensity_factor" =>
    /\ call.outcome = "returned"
    /\ call.value = WeightedMeanPower(workout)

(* the minutes of the entries of a sequence that pass a test *)
MinutesWhere(seq, Test(_), Minutes(_)) ==
  LET kept == SelectSeq(seq, Test)
  IN  SumSeq([i \in 1..Len(kept) |-> Minutes(kept[i])])

(* C9: calculate_high_intensity_time(workout, t) is the minutes of the     *)
(* segments whose lower bound is >= t plus repetitions * work minutes of   *)
(* the blocks whose work lower bound is >= t, rest never counted; with     *)
(* t = 0.91 a Zone 4 block (0.91-1.05) counts and a Zone 3 block           *)
(* (0.76-0.90) does not.                                                   *)
C9_HighIntensityTime ==
  call.op = "calculate_high_intensity_time" =>
    LET t == call.threshold_pct
        blocks == workout.repeated_intervals
    IN  /\ call.result
             = MinutesWhere(workout.segments,
                            LAMBDA seg : seg.power_pct_ftp[1] >= t,
                            LAMBDA seg : seg.duration_minutes)
               + MinutesWhere(blocks,
                              LAMBDA b : b.work_power_pct[1] >= t,
                              LAMBDA b : b.repetitions * b.work_duration)
        /\ (t = DefaultThresholdPct /\ workout.segments = <<>>
              /\ \A i \in 1..Len(blocks) : blocks[i].work_power_pct = POWER_ZONES.Z4) =>
             call.result
               = SumSeq([i \in 1..Len(blocks) |->
                           blocks[i].repetitions * blocks[i].work_duration])
        /\ (t = DefaultThresholdPct /\ workout.segments = <<>>
              /\ \A i \in 1..Len(blocks) : blocks[i].work_power_pct = POWER_ZONES.Z3) =>
             call.result = 0
        /\ (t = DefaultThresholdPct /\ workout.type = "threshold") =>
             call.result
               = SumSeq([i \in 1..Len(blocks) |->
                           blocks[i].repetitions * blocks[i].work_duration])
        /\ (t = DefaultThresholdPct /\ workout.type = "tempo") => call.result = 0

(* the 2 x 20 min Zone 4 session has been measured at the default          *)
(* threshold: 40 minutes                                                   *)
C9_Witness ==
  /\ call.op = "calculate_high_intensity_time"
  /\ call.threshold_pct = DefaultThresholdPct
  /\ workout.type = "threshold"
  /\ Len(workout.repeated_intervals) = 2
  /\ workout.repeated_intervals[1].rest_duration > 0
  /\ call.result = 40

BucketRank(bucket) ==
  CASE bucket = "12-18 heures" -> 1
    [] bucket = "18-24 heures" -> 2
    [] bucket = "24-36 heures" -> 3
    [] bucket = "36-48 heures" -> 4
    [] bucket = "48-72 heures" -> 5

(* C10: for a fixed level a larger stress score never maps to a shorter    *)
(* recovery bucket, and for every stress score the bucket of "beginner" is *)
(* never shorter than the bucket of "elite".                               *)
C10_RecoveryMonotone ==
  call.op = "estimate_recovery_time" =>
    /\ \A larger \in TssInputs :
         larger >= request.tss =>
           BucketRank(estimate_recovery_time(larger, request.athlete_level))
             >= BucketRank(call.result)
    /\ request.athlete_level = "beginner" =>
         BucketRank(call.result)
           >= BucketRank(estimate_recovery_time(request.tss, "elite"))
    /\ request.athlete_level = "elite" =>
         BucketRank(estimate_recovery_time(request.tss, "beginner"))
           >= BucketRank(call.result)

(* a stress score of 50 has been bucketed for a beginner at 24-36 h, where *)
(* an elite athlete gets 12-18 h                                           *)
C10_Witness ==
  /\ call.op = "estimate_recovery_time"
  /\ request.athlete_level = "beginner"
  /\ request.tss = 50 * TssTenths
  /\ call.result = "24-36 heures"
  /\ estimate_recovery_time(request.tss, "elite") = "12-18 heures"

(* the claimed stress score, over TssDenom: per segment minutes * m^2 and  *)
(* per block repetitions * (work * m_work^2 + rest * m_rest^2), where      *)
(* (2m)^2 is the square of lo + hi                                         *)
ClaimedTss(w) ==
  SumSeq([i \in 1..Len(w.segments) |->
            w.segments[i].duration_minutes
            * Square(w.segments[i].power_pct_ftp[1] + w.segments[i].power_pct_ftp[2])])
  + SumSeq([i \in 1..Len(w.repeated_intervals) |->
              LET b == w.repeated_intervals[i]
              IN  b.repetitions
                  * (b.work_duration * Square(b.work_power_pct[1] + b.work_power_pct[2])
                     + b.rest_duration * Square(b.rest_power_pct[1] + b.rest_power_pct[2]))])

(* C6: calculate_tss is the sum over segments of (duration/60) * m^2 * 100 *)
(* plus over blocks repetitions * ((work/60) * m_work^2 + (rest/60) *      *)
(* m_rest^2) * 100, m the midpoint of the power range; a single 60-minute  *)
(* segment at exactly 100% with no intervals scores exactly 100.           *)
C6_TssFormula ==
  call.op = "calculate_tss" =>
    /\ call.result = ClaimedTss(workout)
    /\ (workout.repeated_intervals = <<>> /\ Len(workout.segments) = 1
          /\ workout.segments[1].duration_minutes = 60
          /\ workout.segments[1].power_pct_ftp = <<PowerScale, PowerScale>>) =>
         call.result = 100 * TssDenom

(* the 60-minute segment at 100% has been scored: 100 *)
C6_Witness ==
  /\ call.op = "calculate_tss"
  /\ workout.repeated_intervals = <<>>
  /\ Len(workout.segments) = 1
  /\ workout.segments[1].duration_minutes = 60
  /\ workout.segments[1].power_pct_ftp = <<PowerScale, PowerScale>>
  /\ call.result = 100 * TssDenom

Raised(p, q) == q[1] >= p[1] /\ q[2] >= p[2]

TssOf(w) == calculate_tss(w.segments, w.repeated_intervals, w.ftp)

(* C7: lengthening a segment with its power range fixed, or raising its    *)
(* non-negative power range with its duration fixed, never lowers the      *)
(* score of a one-segment session; the same for the work and the rest      *)
(* phase of a repeated block.  Durations are minutes >= 0.                 *)
C7_TssMonotone ==
  call.op = "calculate_tss" =>
    /\ (Len(workout.segments) = 1 /\ workout.repeated_intervals = <<>>) =>
         /\ \A longer \in SegMinutes :
              longer >= workout.segments[1].duration_minutes =>
                TssOf([workout EXCEPT !.segments[1].duration_minutes = longer])
                  >= call.result
         /\ \A higher \in SegPowers :
              Raised(workout.segments[1].power_pct_ftp, higher) =>
                TssOf([workout EXCEPT !.segments[1].power_pct_ftp = higher])
                  >= call.result
    /\ Len(workout.repeated_intervals) = 1 =>
         LET b == workout.repeated_intervals[1]
         IN  /\ \A longer \in BlockWorkMinutes :
                  longer >= b.work_duration =>
                    TssOf([workout EXCEPT !.repeated_intervals[1].work_duration = longer])
                      >= call.result
             /\ \A longer \in BlockRestMinutes :
                  longer >= b.rest_duration =>
                    TssOf([workout EXCEPT !.repeated_intervals[1].rest_duration = longer])
                      >= call.result
             /\ \A higher \in BlockWorkPowers :
                  Raised(b.work_power_pct, higher) =>
                    TssOf([workout EXCEPT !.repeated_intervals[1].work_power_pct = higher])
                      >= call.result
             /\ \A higher \in BlockRestPowers :
                  Raised(b.rest_power_pct, higher) =>
                    TssOf([workout EXCEPT !.repeated_intervals[1].rest_power_pct = higher])
                      >= call.result

(* a one-block session without rest has been scored, and the same block    *)
(* with a 2-minute rest scores strictly more                               *)
C7_Witness ==
  /\ call.op = "calculate_tss"
  /\ workout.segments = <<>>
  /\ Len(workout.repeated_intervals) = 1
  /\ workout.repeated_intervals[1].rest_duration = 0
  /\ workout.repeated_intervals[1].rest_power_pct = POWER_ZONES.Z2
  /\ TssOf([workout EXCEPT !.repeated_intervals[1].rest_duration = 2]) > call.result

----------------------------------------------------------------------------
(* The validator *)

WorkRangeValid(power_pct) ==
  400 <= power_pct[1] /\ power_pct[1] < power_pct[2] /\ power_pct[2] <= 3000
RestRangeValid(power_pct) == 300 <= power_pct[1] /\ power_pct[2] <= 1000

Reported(issues, kinds, value) ==
  \E k \in 1..Len(issues) : issues[k].issue \in kinds /\ issues[k].value = value

(* C11: validate_workout_structure returns a list, without raising, that   *)
(* holds a power-range issue for every segment and every work interval     *)
(* whose range violates 0.4 <= lo < hi <= 3.0 and for every rest interval  *)
(* whose range violates 0.3 <= lo and hi <= 1.0.                           *)
C11_PowerRangeIssues ==
  call.op = "validate_workout_structure" =>
    /\ call.outcome = "returned"
    /\ \A i \in 1..Len(workout.segments) :
         ~WorkRangeValid(workout.segments[i].power_pct_ftp) =>
           Reported(call.result,
                    {"Zone de puissance invalide dans segment",
                     "Puissance min >= max dans segment"},
                    workout.segments[i].power_pct_ftp)
    /\ \A i \in 1..Len(workout.repeated_intervals) :
         LET interval == workout.repeated_intervals[i]
         IN  /\ ~WorkRangeValid(interval.work_power_pct) =>
                  Reported(call.result, {"Zone de travail invalide"},
                           interval.work_power_pct)
             /\ ~RestRangeValid(interval.rest_power_pct) =>
                  Reported(call.result, {"Zone de repos invalide"},
                           interval.rest_power_pct)

----------------------------------------------------------------------------
(* The periodization engine *)

PlanReturned == call.op = "create_periodization_plan" /\ call.outcome = "returned"
PlanRaised == call.op = "create_periodization_plan" /\ call.outcome = "raised"

(* the number of weekly plans of a phase *)
PhaseWeekCount(weekly_plans, phase) ==
  Cardinality({ i \in 1..Len(weekly_plans) : weekly_plans[i].phase = phase })

(* C12: for every duration_weeks >= 1, with or without target events, the  *)
(* returned plan has exactly duration_weeks weekly plans, equal to its     *)
(* total_weeks, numbered 1..duration_weeks in order; for 16 weeks without  *)
(* an event Base + Build + Peak is 16.                                     *)
C12_WeekCount ==
  (PlanReturned /\ request.duration_weeks >= 1) =>
    LET weekly_plans == call.result.weekly_plans
    IN  /\ Len(weekly_plans) = request.duration_weeks
        /\ call.result.total_weeks = request.duration_weeks
        /\ \A i \in 1..Len(weekly_plans) : weekly_plans[i].week_number = i
        /\ (request.duration_weeks = 16 /\ request.target_events = << >>) =>
             PhaseWeekCount(weekly_plans, "base") + PhaseWeekCount(weekly_plans, "build")
               + PhaseWeekCount(weekly_plans, "peak") = 16

(* the improvement rates as stated, in percent *)
ClaimedImprovement == [beginner |-> 15, intermediate |-> 8, advanced |-> 5]

(* C13: the projected FTP is floor(current + current * m(level) *          *)
(* min(1, weeks/20)) with m = 15%, 8%, 5% for beginner, intermediate,      *)
(* advanced; it never decreases when weeks grows and is the same for every *)
(* weeks >= 20.  The floor is stated as 2000 * r <= 2000 * x < 2000 * (r + 1). *)
C13_ProjectedFtp ==
  (call.op = "_calculate_projected_ftp" /\ request.level \in DOMAIN ClaimedImprovement) =>
    LET current == request.current_ftp
        twentieths == IF request.weeks >= 20 THEN 20 ELSE request.weeks
        exact == current * 2000 + current * ClaimedImprovement[request.level] * twentieths
    IN  /\ call.outcome = "returned"
        /\ 2000 * call.result <= exact
        /\ exact < 2000 * (call.result + 1)
        /\ \A longer \in WeeksInputs :
             longer >= request.weeks =>
               _calculate_projected_ftp(current, request.level, longer) >= call.result
        /\ request.weeks >= 20 =>
             \A longer \in WeeksInputs :
               longer >= 20 =>
                 _calculate_projected_ftp(current, request.level, longer) = call.result

(* a beginner at 320 W has been projected over 24 weeks to 368 W, the      *)
(* value of 20 weeks, above the 344 W of 10 weeks                          *)
C13_Witness ==
  /\ call.op = "_calculate_projected_ftp"
  /\ request.level = "beginner"
  /\ request.current_ftp = 320
  /\ request.weeks = 24
  /\ call.result = 368
  /\ _calculate_projected_ftp(320, "beginner", 20) = 368
  /\ _calculate_projected_ftp(320, "beginner", 10) = 344

(* a weekly plan with its load target, its distribution over Z1..Z5 and a  *)
(* template for each of the seven days                                     *)
FullyPopulated(week_plan) ==
  /\ week_plan.training_load.tss_target > 0
  /\ DOMAIN week_plan.training_load.intensity_distribution = {"Z1", "Z2", "Z3", "Z4", "Z5"}
  /\ DOMAIN week_plan.workouts = { WeekDays[j] : j \in 1..Len(WeekDays) }

(* C14: create_periodization_plan never partially completes: it returns a *)
(* plan whose every week is fully populated, or it raises before any       *)
(* weekly plan has been generated; a malformed date of the target event    *)
(* and a non-positive duration_weeks both make it raise.                   *)
C14_AllOrNothing ==
  call.op = "create_periodization_plan" =>
    /\ PlanReturned =>
         \A i \in 1..Len(call.result.weekly_plans) :
           FullyPopulated(call.result.weekly_plans[i])
    /\ PlanRaised => call.weeks_generated = 0
    /\ ( /\ request.target_events # << >>
         /\ "date" \in DOMAIN request.target_events[1]
         /\ request.target_events[1].date \in MalformedDates ) => PlanRaised
    /\ request.duration_weeks <= 0 => PlanRaised

----------------------------------------------------------------------------
(* The zone table *)

(* C15: get_zone_info with an identifier that is not one of Z1..Z7 fails   *)
(* with a not-found error instead of returning a value.                    *)
C15_UnknownZoneNotFound ==
  (call.op = "get_zone_info"
   /\ request.zone_id \notin {"Z1", "Z2", "Z3", "Z4", "Z5", "Z6", "Z7"}) =>
    call.outcome = "raised"

----------------------------------------------------------------------------
(* The plan and the wall clock *)

(* C16: create_periodization_plan is a deterministic function of its       *)
(* arguments: the plan returned, start_date and end_date included, is the  *)
(* plan the same arguments yield at every other reading of the wall clock. *)
C16_PlanIndependentOfClock ==
  PlanReturned =>
    \A now \in 0..MaxClock :
      create_periodization_plan(tables, request.athlete_profile, request.target_events,
                                request.duration_weeks, request.model, now).result
        = call.result

----------------------------------------------------------------------------
(* Frame *)

(* C17: no step of any operation (create_smart_workout, calculate_tss,     *)
(* estimate_recovery_time, validate_workout_structure,                     *)
(* create_periodization_plan, create_training_calendar and the others)     *)
(* changes the constant tables or the arguments the caller supplied, the   *)
(* athlete profile and the target events among them; the tables stay as    *)
(* they were built.                                                        *)
C17_TablesAndArgumentsUnchanged ==
  [][tables' = tables /\ tables' = ConstantTables /\ request' = request]_vars

(* a calendar has been built from a plan that was created after the clock  *)
(* had advanced, for a profile and an event list the plan still refers to, *)
(* and the tables are as built                                             *)
C17_Witness ==
  /\ call.op = "create_training_calendar"
  /\ call.plan.start_date >= 1
  /\ request.target_events # << >>
  /\ call.plan.target_events = request.target_events
  /\ call.plan.athlete_id = request.athlete_profile.user_id
  /\ tables = ConstantTables

----------------------------------------------------------------------------
(* The phases of a plan *)

PhaseRank(phase) ==
  CASE phase = "base" -> 1
    [] phase = "build" -> 2
    [] phase = "peak" -> 3
    [] OTHER -> 0

(* C18: read in week order, the phases of the weekly plans follow          *)
(* Base -> Build -> Peak and never go back to an earlier phase, with and   *)
(* without a target event.                                                 *)
C18_PhaseOrder ==
  PlanReturned =>
    LET weekly_plans == call.result.weekly_plans
    IN  /\ \A i \in 1..Len(weekly_plans) : PhaseRank(weekly_plans[i].phase) >= 1
        /\ \A i \in 1..Len(weekly_plans) : \A j \in i..Len(weekly_plans) :
             PhaseRank(weekly_plans[i].phase) <= PhaseRank(weekly_plans[j].phase)

(* a plan toward an event holds all three phases: it starts in Base, is in *)
(* Build in between and ends in Peak                                       *)
C18_Witness ==
  /\ PlanReturned
  /\ request.target_events # << >>
  /\ Len(call.result.weekly_plans) >= 3
  /\ call.result.weekly_plans[1].phase = "base"
  /\ \E i \in 1..Len(call.result.weekly_plans) : call.result.weekly_plans[i].phase = "build"
  /\ call.result.weekly_plans[Len(call.result.weekly_plans)].phase = "peak"

(* the ratios of Base and Build as stated, in tenths *)
ClaimedRatios(weeks) ==
  IF weeks >= 12 THEN <<5, 3>> ELSE IF weeks >= 8 THEN <<4, 4>> ELSE <<3, 5>>

(* C19: without a target event and for any duration_weeks >= 1 the plan    *)
(* has max(1, floor(w * r_base)) Base weeks, max(1, floor(w * r_build))    *)
(* Build weeks and the remainder as Peak weeks, with (r_base, r_build) =   *)
(* (0.5, 0.3) for w >= 12, (0.4, 0.4) for 8 <= w < 12, (0.3, 0.5) for      *)
(* w < 8; each of the three phases has at least 1 week.                    *)
C19_StandardSplit ==
  (PlanReturned /\ request.target_events = << >> /\ request.duration_weeks >= 1) =>
    LET w == request.duration_weeks
        weekly_plans == call.result.weekly_plans
        base == Max(1, (w * ClaimedRatios(w)[1]) \div 10)
        build == Max(1, (w * ClaimedRatios(w)[2]) \div 10)
    IN  /\ PhaseWeekCount(weekly_plans, "base") = base
        /\ PhaseWeekCount(weekly_plans, "build") = build
        /\ PhaseWeekCount(weekly_plans, "peak") = w - base - build
        /\ \A phase \in {"base", "build", "peak"} : PhaseWeekCount(weekly_plans, phase) >= 1

(* the weekly plans end with peak Peak weeks, preceded by build Build      *)
(* weeks, and every earlier week is a Base week                            *)
BackwardLayout(weekly_plans, build, peak) ==
  LET n == Len(weekly_plans)
  IN  /\ n >= peak + build
      /\ \A i \in 1..n :
           weekly_plans[i].phase =
             IF i > n - peak THEN "peak"
             ELSE IF i > n - peak - build THEN "build"
             ELSE "base"

EventPlanReturned ==
  PlanReturned /\ request.target_events # << >> /\ request.duration_weeks >= 3

(* C20 as stated: with target events and duration_weeks >= 3 the last 3    *)
(* weeks are Peak, the min(8, duration_weeks - 3) weeks before them are    *)
(* Build and all earlier weeks are Base; a plan of 11 weeks or fewer has   *)
(* no Base week.                                                           *)
C20_EventSplitAsStated ==
  EventPlanReturned =>
    /\ BackwardLayout(call.result.weekly_plans, Min(8, request.duration_weeks - 3), 3)
    /\ request.duration_weeks <= 11 => PhaseWeekCount(call.result.weekly_plans, "base") = 0

(* C20: with target events and duration_weeks >= 3 the last 3 weeks are    *)
(* Peak, the max(0, min(8, duration_weeks - 5)) weeks before them are      *)
(* Build and all earlier weeks are Base; there are 2 Base weeks up to 13   *)
(* weeks and duration_weeks - 11 beyond, so Build reaches 8 weeks only     *)
(* from 13 weeks on and every plan has Base weeks.                         *)
C20_EventSplit ==
  EventPlanReturned =>
    LET w == request.duration_weeks
    IN  /\ BackwardLayout(call.result.weekly_plans, Max(0, Min(8, w - 5)), 3)
        /\ PhaseWeekCount(call.result.weekly_plans, "base") = (IF w <= 13 THEN 2 ELSE w - 11)
        /\ PhaseWeekCount(call.result.weekly_plans, "build") = 8 <=> w >= 13

(* a 12-week plan toward an event: 2 Base weeks, 7 Build weeks, 3 Peak     *)
(* weeks                                                                   *)
C20_Witness ==
  /\ EventPlanReturned
  /\ request.duration_weeks = 12
  /\ Len(call.result.weekly_plans) = 12
  /\ call.result.weekly_plans[2].phase = "base"
  /\ call.result.weekly_plans[3].phase = "build"
  /\ call.result.weekly_plans[9].phase = "build"
  /\ call.result.weekly_plans[10].phase = "peak"

----------------------------------------------------------------------------
(* The weekly load *)

(* the 4-week patterns and the phase multipliers as stated, in tenths *)
ClaimedPattern ==
  [base |-> <<7, 8, 9, 6>>, build |-> <<8, 9, 10, 7>>, peak |-> <<9, 10, 8, 5>>]
ClaimedPhaseMultiplier == [base |-> 9, build |-> 11, peak |-> 10]
ClaimedBaseRecovery == [base |-> 30, build |-> 40, peak |-> 60]

(* the 0-based offset of week i within its own phase *)
OffsetInPhase(weekly_plans, i) ==
  Cardinality({ j \in 1..(i - 1) : weekly_plans[j].phase = weekly_plans[i].phase })

(* C21: the cycle position of a week is its 0-based offset within its own  *)
(* phase modulo 4; its TSS target is base TSS * phase multiplier *         *)
(* pattern[position] and its recovery emphasis is the base value of the    *)
(* phase, times 1.5 exactly when the position is 3, so the unloading week  *)
(* recurs at offsets 3, 7, 11, ... of a phase.                             *)
C21_FourWeekCycle ==
  PlanReturned =>
    LET weekly_plans == call.result.weekly_plans
        base_tss == _calculate_base_tss(request.athlete_profile)
    IN  \A i \in 1..Len(weekly_plans) :
          LET phase == weekly_plans[i].phase
              position == OffsetInPhase(weekly_plans, i) % 4
          IN  /\ weekly_plans[i].training_load.tss_target
                   = base_tss * ClaimedPhaseMultiplier[phase] * ClaimedPattern[phase][position + 1]
              /\ weekly_plans[i].recovery_emphasis
                   = IF position = 3 THEN (ClaimedBaseRecovery[phase] * 3) \div 2
                     ELSE ClaimedBaseRecovery[phase]

(* a 16-week plan toward an event: Build runs over weeks 6..13, its 4th    *)
(* and its 8th week (weeks 9 and 13) are unloading weeks, and week 10      *)
(* restarts the pattern                                                    *)
C21_Witness ==
  /\ PlanReturned
  /\ request.duration_weeks = 16
  /\ request.target_events # << >>
  /\ Len(call.result.weekly_plans) = 16
  /\ call.result.weekly_plans[6].phase = "build"
  /\ call.result.weekly_plans[13].phase = "build"
  /\ call.result.weekly_plans[9].recovery_emphasis = 60
  /\ call.result.weekly_plans[13].recovery_emphasis = 60
  /\ call.result.weekly_plans[10].recovery_emphasis = 40
  /\ call.result.weekly_plans[10].training_load.tss_target
       = call.result.weekly_plans[6].training_load.tss_target

----------------------------------------------------------------------------
(* The base stress score *)

ClaimedBaseTss == [beginner |-> 250, intermediate |-> 350, advanced |-> 450, elite |-> 550]

BaseTssReturned == call.op = "_calculate_base_tss" /\ call.outcome = "returned"

(* a profile with both parts of its available_time *)
HasBothHours(athlete_profile) ==
  /\ "available_time" \in DOMAIN athlete_profile
  /\ DOMAIN athlete_profile.available_time = {"weekdays", "weekends"}

(* C22: the base stress score is 250 / 350 / 450 / 550 for beginner /      *)
(* intermediate / advanced / elite, times 0.7 when weekdays + weekends of  *)
(* available_time is strictly below 6, times 1.3 when strictly above 12,   *)
(* and unscaled for every value from 6 to 12 inclusive (in tenths).        *)
C22_BaseTssScaling ==
  ( /\ BaseTssReturned
    /\ HasBothHours(request.athlete_profile)
    /\ "experience_level" \in DOMAIN request.athlete_profile
    /\ request.athlete_profile.experience_level \in DOMAIN ClaimedBaseTss ) =>
    LET hours == request.athlete_profile.available_time.weekdays
                 + request.athlete_profile.available_time.weekends
        score == ClaimedBaseTss[request.athlete_profile.experience_level]
    IN  /\ hours < 6 => call.result = score * 7
        /\ hours > 12 => call.result = score * 13
        /\ (6 <= hours /\ hours <= 12) => call.result = score * BaseTssTenths

(* an elite athlete with 4 + 8 = 12 hours keeps the unscaled 550 *)
C22_Witness ==
  /\ BaseTssReturned
  /\ HasBothHours(request.athlete_profile)
  /\ "experience_level" \in DOMAIN request.athlete_profile
  /\ request.athlete_profile.experience_level = "elite"
  /\ request.athlete_profile.available_time.weekdays = 4
  /\ request.athlete_profile.available_time.weekends = 8
  /\ call.result = 550 * BaseTssTenths

(* the scaled score as stated, in tenths, for a weekly number of hours *)
ClaimedScaled(score, hours) ==
  IF hours < 6 THEN score * 7 ELSE IF hours > 12 THEN score * 13 ELSE score * 10

(* C30: a profile without an available_time entry gets the default weekly  *)
(* hours 5 + 8 = 13, above 12, so its base stress score is scaled by 1.3   *)
(* (455 instead of 350 for intermediate); an available_time that lacks     *)
(* only weekdays or only weekends gets 5 or 8 for the missing part.        *)
C30_DefaultWeeklyHours ==
  ( /\ BaseTssReturned
    /\ "experience_level" \in DOMAIN request.athlete_profile
    /\ request.athlete_profile.experience_level \in DOMAIN ClaimedBaseTss ) =>
    LET profile == request.athlete_profile
        score == ClaimedBaseTss[profile.experience_level]
    IN  /\ "available_time" \notin DOMAIN profile => call.result = score * 13
        /\ ("available_time" \in DOMAIN profile
            /\ DOMAIN profile.available_time = {"weekdays"}) =>
             call.result = ClaimedScaled(score, profile.available_time.weekdays + 8)
        /\ ("available_time" \in DOMAIN profile
            /\ DOMAIN profile.available_time = {"weekends"}) =>
             call.result = ClaimedScaled(score, 5 + profile.available_time.weekends)

(* an intermediate athlete without available_time has been given 455 *)
C30_Witness ==
  /\ BaseTssReturned
  /\ request.athlete_profile = [experience_level |-> "intermediate"]
  /\ call.result = 4550

----------------------------------------------------------------------------
(* The intensity distribution *)

TabledModels == {"polarized", "pyramidal", "traditional"}
Zones5 == {"Z1", "Z2", "Z3", "Z4", "Z5"}

(* the share of a zone (thousandths) is the table's share (hundredths)     *)
(* times one factor (tenths) of the given set                              *)
ScaledBy(week_plan, model, zone, factors) ==
  \E f \in factors :
    week_plan.training_load.intensity_distribution[zone]
      = tables.intensity_distributions[model][zone] * f

(* C23 as stated: for the Polarized, Pyramidal and Traditional models the  *)
(* share of a zone is the table's share times a phase factor, without      *)
(* renormalization: in Base, Z1 and Z2 by 1.1 to 1.2 and Z3, Z4, Z5 by 0.5 *)
(* to 0.8; in Build and in Peak, Z1 and Z2 by factors below 1 and Z4 and   *)
(* Z5 by factors above 1 and at most 1.8.                                  *)
C23_PhaseFactorsAsStated ==
  (PlanReturned /\ request.model \in TabledModels) =>
    \A i \in 1..Len(call.result.weekly_plans) :
      LET week_plan == call.result.weekly_plans[i]
      IN  /\ week_plan.phase = "base" =>
               /\ \A z \in {"Z1", "Z2"} : ScaledBy(week_plan, request.model, z, 11..12)
               /\ \A z \in {"Z3", "Z4", "Z5"} : ScaledBy(week_plan, request.model, z, 5..8)
          /\ week_plan.phase \in {"build", "peak"} =>
               /\ \A z \in {"Z1", "Z2"} : ScaledBy(week_plan, request.model, z, 1..9)
               /\ \A z \in {"Z4", "Z5"} : ScaledBy(week_plan, request.model, z, 11..18)

(* the factors of each phase, in tenths, for Z1..Z5 *)
AmendedFactors ==
  [base  |-> [Z1 |-> 12, Z2 |-> 11, Z3 |-> 8,  Z4 |-> 6,  Z5 |-> 5],
   build |-> [Z1 |-> 9,  Z2 |-> 9,  Z3 |-> 12, Z4 |-> 13, Z5 |-> 15],
   peak  |-> [Z1 |-> 11, Z2 |-> 8,  Z3 |-> 9,  Z4 |-> 12, Z5 |-> 18]]

(* C23: for the Polarized, Pyramidal and Traditional models the share of a *)
(* zone is the table's share times a phase factor, without                 *)
(* renormalization: in Base 1.2, 1.1, 0.8, 0.6, 0.5 for Z1..Z5; in Build   *)
(* 0.9, 0.9, 1.2, 1.3, 1.5; in Peak 1.1, 0.8, 0.9, 1.2, 1.8, so Peak       *)
(* raises Z1 as well as Z4 and Z5, and no factor exceeds 1.8.              *)
C23_PhaseFactors ==
  (PlanReturned /\ request.model \in TabledModels) =>
    \A i \in 1..Len(call.result.weekly_plans) :
      LET week_plan == call.result.weekly_plans[i]
      IN  \A z \in Zones5 :
            ScaledBy(week_plan, request.model, z, {AmendedFactors[week_plan.phase][z]})

(* a Traditional plan ends in a Peak week with Z1 at 0.50 * 1.1 and Z5 at  *)
(* 0.03 * 1.8                                                              *)
C23_Witness ==
  /\ PlanReturned
  /\ request.model = "traditional"
  /\ Len(call.result.weekly_plans) >= 3
  /\ LET last == call.result.weekly_plans[Len(call.result.weekly_plans)]
     IN  /\ last.phase = "peak"
         /\ last.training_load.intensity_distribution.Z1 = 550
         /\ last.training_load.intensity_distribution.Z5 = 54

----------------------------------------------------------------------------
(* The calendar *)

CalendarReturned == call.op = "create_training_calendar" /\ call.outcome = "returned"

(* the date of the j-th entry (0-based) of the day template of week i *)
DatedDay(calendar, i, j) == calendar.weekly_calendar[i].daily_workouts[WeekDays[j + 1]].date

(* C24: the calendar dates the i-th weekly plan (1-based) from the start   *)
(* date plus 7 * (i - 1) days and the j-th entry (0-based) of its day      *)
(* template from that week start plus j days; the dated days of the whole  *)
(* plan are consecutive calendar days without gap or repetition, the first *)
(* being the start date.                                                   *)
C24_SequentialDates ==
  CalendarReturned =>
    LET calendar == call.result
        n == Len(call.plan.weekly_plans)
        first == strftime_ymd(call.plan.start_date)
        slots == (1..n) \X (0..6)
    IN  /\ Len(calendar.weekly_calendar) = n
        /\ \A i \in 1..n :
             /\ calendar.weekly_calendar[i].start_date = first + 7 * (i - 1)
             /\ DOMAIN calendar.weekly_calendar[i].daily_workouts
                  = { WeekDays[j + 1] : j \in 0..6 }
             /\ \A j \in 0..6 :
                  DatedDay(calendar, i, j) = calendar.weekly_calendar[i].start_date + j
        /\ { DatedDay(calendar, s[1], s[2]) : s \in slots } = first..(first + 7 * n - 1)
        /\ \A s \in slots : \A t \in slots :
             DatedDay(calendar, s[1], s[2]) = DatedDay(calendar, t[1], t[2]) => s = t

(* a calendar of a plan created on the second day of the clock: the        *)
(* Tuesday of its second week is dated 1 + 7 + 1                           *)
C24_Witness ==
  /\ CalendarReturned
  /\ call.plan.start_date = TicksPerDay
  /\ Len(call.result.weekly_calendar) >= 2
  /\ call.result.weekly_calendar[1].start_date = 1
  /\ call.result.weekly_calendar[2].daily_workouts["tuesday"].date = 9

----------------------------------------------------------------------------
(* The 2 x 20 threshold session *)

(* a threshold session built for 80 minutes or more at a level whose       *)
(* threshold blocks may last 20 minutes *)
LongThresholdBuilt ==
  /\ workout # NoWorkout
  /\ request.op = "create_smart_workout"
  /\ workout.type = "threshold"
  /\ request.duration >= 80
  /\ level_adaptations(request.level).threshold_intervals.max_duration >= 20

(* two single 20-minute Zone 4 blocks, `recovery` minutes of rest after    *)
(* the first and none after the second *)
TwoByTwenty(w, recovery) ==
  /\ Len(w.repeated_intervals) = 2
  /\ \A i \in 1..2 :
       /\ w.repeated_intervals[i].repetitions = 1
       /\ w.repeated_intervals[i].work_duration = 20
       /\ w.repeated_intervals[i].work_power_pct = POWER_ZONES.Z4
  /\ w.repeated_intervals[1].rest_duration = recovery
  /\ w.repeated_intervals[2].rest_duration = 0

(* C25 as stated: a threshold session for 80 minutes or more, at a level   *)
(* whose threshold blocks may last 20 minutes, has exactly two 20-minute   *)
(* Zone 4 work blocks with a 5-minute recovery after the first and none    *)
(* after the second.                                                       *)
C25_TwoBlocksFiveMinutes == LongThresholdBuilt => TwoByTwenty(workout, 5)

(* C25, amended: as above with a recovery of 4 minutes for the elite level *)
(* and of 5 minutes for every other such level.                            *)
C25_TwoBlocks ==
  LongThresholdBuilt =>
    TwoByTwenty(workout, IF request.level = "elite" THEN 4 ELSE 5)

(* a 90-minute elite threshold session holds a 4-minute recovery *)
C25_Witness ==
  /\ LongThresholdBuilt
  /\ request.level = "elite"
  /\ request.duration = 90
  /\ workout.repeated_intervals[1].rest_duration = 4

----------------------------------------------------------------------------
(* The rest after the last repetition *)

(* work minutes plus the rests between consecutive repetitions *)
WithoutTrailingRest(interval) ==
  interval.repetitions * (interval.work_duration + interval.rest_duration)
  - interval.rest_duration

(* C26: in every built session the minutes a repeated block contributes to *)
(* the actual duration are its work minutes plus the rests between         *)
(* consecutive repetitions only: repetitions * (work + rest) minus one     *)
(* trailing rest.                                                          *)
C26_NoTrailingRest ==
  (workout # NoWorkout /\ request.op = "create_smart_workout") =>
    \A i \in 1..Len(workout.repeated_intervals) :
      get_total_duration(workout.repeated_intervals[i])
        = WithoutTrailingRest(workout.repeated_intervals[i])

----------------------------------------------------------------------------
(* Block durations *)

(* C27: for every type, level and requested duration >= 1, every segment   *)
(* of the built session lasts >= 0 minutes and every work block of every   *)
(* repeated interval lasts > 0 minutes.                                    *)
C27_PositiveBlocks ==
  (workout # NoWorkout /\ request.op = "create_smart_workout"
     /\ request.duration >= 1) =>
    /\ \A i \in 1..Len(workout.segments) : workout.segments[i].duration_minutes >= 0
    /\ \A i \in 1..Len(workout.repeated_intervals) :
         workout.repeated_intervals[i].work_duration > 0

----------------------------------------------------------------------------
(* Built sessions under the calculator's validation *)

PowerRangeIssues ==
  { "Zone de puissance invalide dans segment", "Puissance min >= max dans segment",
    "Zone de travail invalide", "Zone de repos invalide" }

WarmupCooldownIssues ==
  { "Echauffement recommande pour seances > 30min",
    "Retour au calme recommande pour seances > 30min" }

(* C28: for a session built for a requested duration > 0, of any type and  *)
(* level, validate_workout_structure returns no power-range issue and no   *)
(* missing warm-up or cool-down issue.                                     *)
C28_BuiltSessionsValidate ==
  (request.op = "create_smart_workout" /\ request.duration > 0
     /\ call.op = "validate_workout_structure") =>
    \A i \in 1..Len(call.result) :
      call.result[i].issue \notin PowerRangeIssues \cup WarmupCooldownIssues

----------------------------------------------------------------------------
(* The plan and the target events *)

(* event lists whose first event is named and dated: the first date of a   *)
(* list may be malformed, long past or far ahead, its priority A or B, and *)
(* further events may follow *)
NamedDated(events) == events # << >> /\ {"name", "date"} \subseteq DOMAIN events[1]
EventVariants == { e \in TargetEventLists : NamedDated(e) }
Parses(events) == strptime_ymd(events[1].date).outcome = "returned"
ProfileComplete(athlete_profile) ==
  {"ftp", "experience_level", "user_id"} \subseteq DOMAIN athlete_profile

(* C29: for a fixed profile, duration and model, the weekly plans depend   *)
(* on a non-empty list of target events only through whether the date of   *)
(* its first event parses as YYYY-MM-DD: another date, whether before the  *)
(* start or after the end of the plan, another priority or further events  *)
(* leave the outcome and every weekly plan unchanged, and no plan is       *)
(* rejected because of where the event date lies.                          *)
C29_EventsOnlyThroughParse ==
  (call.op = "create_periodization_plan" /\ request.target_events \in EventVariants) =>
    /\ \A e \in EventVariants :
         Parses(e) = Parses(request.target_events) =>
           LET other == create_periodization_plan(tables, request.athlete_profile, e,
                                                  request.duration_weeks,
                                                  request.model, clock)
           IN  /\ other.outcome = call.outcome
               /\ call.outcome = "returned" =>
                    other.result.weekly_plans = call.result.weekly_plans
               /\ call.outcome = "raised" => other.error = call.error
    /\ (Parses(request.target_events) /\ ProfileComplete(request.athlete_profile)) =>
         call.outcome = "returned"
    /\ ~Parses(request.target_events) =>
         call.outcome = "raised" /\ call.error = "ValueError"

(* a plan of twelve weeks or more has been returned for an event dated     *)
(* 9999-12-31, after the end of any plan *)
C29_Witness ==
  /\ PlanReturned
  /\ request.target_events \in EventVariants
  /\ request.target_events[1].date = <<"9","9","9","9","-","1","2","-","3","1">>
  /\ Len(call.result.weekly_plans) >= 12
  /\ call.result.weekly_plans[1].phase = "base"

============================================================================
